---------------------------- MODULE Spec2Model ----------------------------
(***************************************************************************)
(* Model of the stealth-reader "codeifier": the engine that rewrites the   *)
(* text of a book chapter as numbered lines of pseudo-code                 *)
(* (src/src/lib/services/codeifier.ts), and of the book store that drives  *)
(* it (src/src/lib/stores/book.svelte.ts).                                 *)
(*                                                                         *)
(* A string is a sequence of one-character strings.  Indices that the      *)
(* source computes (indexOf, lastIndexOf, substring) are kept 0-based as   *)
(* in JavaScript; -1 is "not found".                                       *)
(***************************************************************************)
EXTENDS Integers, Sequences, FiniteSets, TLC

VARIABLES
    eng,           \* the Codeifier instance's fields (codeifier.ts:32-37)
    out,           \* the lines of the running or latest transform call, and how it ended
    todo,          \* what the running transform call has still to process
    pc,            \* "idle", or "running" inside a transform call
    lastText,      \* the chapter text of the running or latest transform call
    sinceReset,    \* transform calls begun since the last reset() or construction
    nCalls,        \* transform calls begun so far (bounded by MaxCalls)
    emitted,       \* import and export lines pushed since the last reset()
    lastSelection, \* the class of the latest chunk and what the selector did for it
    resetFound,    \* "used" iff the latest reset() found the engine changed since construction
    fnArg,         \* argument of the pure function under check
    fnRes,         \* its result, once fnDone
    fnDone,        \* TRUE once the function has been applied
    store          \* the book store: its selectChapterForSession calls and its sessions' code

vars == <<eng, out, todo, pc, lastText, sinceReset, nCalls, emitted, lastSelection,
          resetFound, fnArg, fnRes, fnDone, store>>

-----------------------------------------------------------------------------
(* Strings *)

WS == {" ", "\n", "\t"}

Min(a, b) == IF a <= b THEN a ELSE b

Max(a, b) == IF a >= b THEN a ELSE b

\* text.substring(a, b), 0-based, end exclusive
Substring(s, a, b) == SubSeq(s, Min(Max(a, 0), Len(s)) + 1, Min(Max(b, 0), Len(s)))

\* text.substring(a)
SubstringFrom(s, a) == SubSeq(s, Min(Max(a, 0), Len(s)) + 1, Len(s))

\* text.trim()
Trim(s) ==
    LET keep == {i \in 1..Len(s) : s[i] \notin WS}
    IN  IF keep = {} THEN <<>>
        ELSE LET lo == CHOOSE i \in keep : \A j \in keep : i <= j
                 hi == CHOOSE i \in keep : \A j \in keep : i >= j
             IN  SubSeq(s, lo, hi)

\* does pat occur in s at 0-based position p
OccursAt(s, pat, p) ==
    /\ p >= 0
    /\ p + Len(pat) <= Len(s)
    /\ \A k \in 1..Len(pat) : s[p + k] = pat[k]

\* s.lastIndexOf(pat)
LastIndexOf(s, pat) ==
    LET hits == {p \in 0..Len(s) : OccursAt(s, pat, p)}
    IN  IF hits = {} THEN -1 ELSE CHOOSE p \in hits : \A q \in hits : p >= q

\* s.indexOf(pat)
IndexOf(s, pat) ==
    LET hits == {p \in 0..Len(s) : OccursAt(s, pat, p)}
    IN  IF hits = {} THEN -1 ELSE CHOOSE p \in hits : \A q \in hits : p <= q

\* s.includes(pat)
Includes(s, pat) == \E p \in 0..Len(s) : OccursAt(s, pat, p)

\* n copies of the character c
Rep(c, n) == [i \in 1..n |-> c]

RECURSIVE Concat(_)
\* parts.join("")
Concat(parts) ==
    IF parts = <<>> THEN <<>> ELSE Head(parts) \o Concat(Tail(parts))

RECURSIVE Join(_, _)
\* parts.join(sep)
Join(parts, sep) ==
    IF parts = <<>> THEN <<>>
    ELSE IF Len(parts) = 1 THEN parts[1]
    ELSE parts[1] \o sep \o Join(Tail(parts), sep)

RECURSIVE SumLen(_)
\* chunks.reduce((sum, chunk) => sum + chunk.length, 0)
SumLen(parts) ==
    IF parts = <<>> THEN 0 ELSE Len(Head(parts)) + SumLen(Tail(parts))

-----------------------------------------------------------------------------
(* Line wrapper: Codeifier.breakLines *)

\* /[.!?]\s/.source : the seven characters of the pattern's own text
SentenceEndSource == <<"[", ".", "!", "?", "]", "\\", "s">>

\* a break point whose hard cut keeps one character more than maxLength
BreakPointCutLate(remaining, maxLength) ==
    LET head        == Substring(remaining, 0, maxLength)
        sentenceEnd == LastIndexOf(head, SentenceEndSource)
        comma       == LastIndexOf(head, <<",", " ">>)
        space       == LastIndexOf(head, <<" ">>)
    IN  IF 10 * sentenceEnd > 6 * maxLength THEN sentenceEnd + 2
        ELSE IF 10 * comma > 7 * maxLength THEN comma + 1
        ELSE IF 10 * space > 8 * maxLength THEN space
        ELSE maxLength + 1

\* the break point chosen for `remaining`, which is longer than maxLength
BreakPoint(remaining, maxLength) ==
    LET head        == Substring(remaining, 0, maxLength)
        sentenceEnd == LastIndexOf(head, SentenceEndSource)
        comma       == LastIndexOf(head, <<",", " ">>)
        space       == LastIndexOf(head, <<" ">>)
    IN  IF 10 * sentenceEnd > 6 * maxLength THEN sentenceEnd + 2
        ELSE IF 10 * comma > 7 * maxLength THEN comma + 1
        ELSE IF 10 * space > 8 * maxLength THEN space
        ELSE maxLength

RECURSIVE BreakLoop(_, _, _)
\* the while loop of breakLines
BreakLoop(remaining, maxLength, lines) ==
    IF Len(remaining) = 0 THEN lines
    ELSE IF Len(remaining) <= maxLength THEN Append(lines, remaining)
    ELSE LET bp == BreakPoint(remaining, maxLength)
         IN  BreakLoop(Trim(SubstringFrom(remaining, bp)), maxLength,
                       Append(lines, Trim(Substring(remaining, 0, bp))))

breakLines(text, maxLength) ==
    IF Len(text) <= maxLength THEN <<text>> ELSE BreakLoop(text, maxLength, <<>>)

-----------------------------------------------------------------------------
(* Chunk segmenter: Codeifier.splitParagraphIntoCodeBlocks *)

Terminators == {".", "!", "?"}

\* first 0-based position >= p whose character is (is not) a terminator, or -1
NextTerm(text, p) ==
    LET hits == {i \in p..(Len(text) - 1) : text[i + 1] \in Terminators}
    IN  IF hits = {} THEN -1 ELSE CHOOSE i \in hits : \A j \in hits : i <= j

NextNonTerm(text, p) ==
    LET hits == {i \in p..(Len(text) - 1) : text[i + 1] \notin Terminators}
    IN  IF hits = {} THEN -1 ELSE CHOOSE i \in hits : \A j \in hits : i <= j

RECURSIVE SentenceMatches(_, _, _)
\* the successive matches of /[^.!?]+[.!?]+/g from position p on
SentenceMatches(text, p, acc) ==
    LET s == NextNonTerm(text, p)
        t == IF s = -1 THEN -1 ELSE NextTerm(text, s)
    IN  IF s = -1 \/ t = -1 THEN acc
        ELSE LET n == NextNonTerm(text, t)
                 e == IF n = -1 THEN Len(text) ELSE n
             IN  SentenceMatches(text, e, Append(acc, Substring(text, s, e)))

\* text.match(Codeifier.SENTENCE_SPLIT) || [text]
MatchSentences(text) ==
    LET m == SentenceMatches(text, 0, <<>>)
    IN  IF m = <<>> THEN <<text>> ELSE m

TargetChunkSize == 200

MinChunkBeforeFlush == 50

ShortParagraph == 300

RECURSIVE ChunkLoop(_, _, _)
\* for (const sentence of sentences) { ... }  ->  [chunks, currentChunk]
ChunkLoop(sentences, currentChunk, chunks) ==
    IF sentences = <<>> THEN [chunks |-> chunks, currentChunk |-> currentChunk]
    ELSE LET sentence       == Head(sentences)
             potentialChunk == currentChunk \o sentence
         IN  IF Len(potentialChunk) > TargetChunkSize
                   /\ Len(currentChunk) > MinChunkBeforeFlush
             THEN ChunkLoop(Tail(sentences), sentence,
                            Append(chunks, Trim(currentChunk)))
             ELSE ChunkLoop(Tail(sentences), potentialChunk, chunks)

\* the chunks built from the sentences, before the content-loss check
SentenceChunks(text) ==
    LET r  == ChunkLoop(MatchSentences(text), <<>>, <<>>)
        c1 == IF Trim(r.currentChunk) # <<>>
              THEN Append(r.chunks, Trim(r.currentChunk)) ELSE r.chunks
    IN  IF c1 = <<>> /\ Trim(text) # <<>> THEN <<Trim(text)>> ELSE c1

\* the content-loss test with the threshold at half of the paragraph
ContentLostBelowHalf(chunks, trimmed) == 10 * SumLen(chunks) < 5 * Len(trimmed)

\* the content-loss test: totalChunkLength < trimmed.length * 0.9
ContentLost(chunks, trimmed) == 10 * SumLen(chunks) < 9 * Len(trimmed)

splitParagraphIntoCodeBlocks(text) ==
    IF Len(text) <= ShortParagraph THEN <<text>>
    ELSE LET chunks  == SentenceChunks(text)
             trimmed == Trim(text)
         IN  IF ContentLost(chunks, trimmed) THEN <<trimmed>>
             ELSE SelectSeq(chunks, LAMBDA c : Len(c) > 0)

-----------------------------------------------------------------------------
(* Characters and words *)

LowerSeq == <<"a", "b", "c", "d", "e", "f", "g", "h", "i", "j", "k", "l", "m", "n", "o", "p", "q", "r", "s", "t", "u", "v", "w", "x", "y", "z">>

UpperSeq == <<"A", "B", "C", "D", "E", "F", "G", "H", "I", "J", "K", "L", "M", "N", "O", "P", "Q", "R", "S", "T", "U", "V", "W", "X", "Y", "Z">>

Digits == {"0", "1", "2", "3", "4", "5", "6", "7", "8", "9"}

Lowers == {LowerSeq[i] : i \in 1..26}

Uppers == {UpperSeq[i] : i \in 1..26}

\* \w of a JavaScript regular expression
WordChars == Lowers \cup Uppers \cup Digits \cup {"_"}

\* c.toLowerCase() / c.toUpperCase()
LowerChar(c) ==
    IF c \in Uppers THEN LowerSeq[CHOOSE i \in 1..26 : UpperSeq[i] = c] ELSE c

UpperChar(c) ==
    IF c \in Lowers THEN UpperSeq[CHOOSE i \in 1..26 : LowerSeq[i] = c] ELSE c

ToLowerCase(s) == [i \in 1..Len(s) |-> LowerChar(s[i])]

ToUpperCase(s) == [i \in 1..Len(s) |-> UpperChar(s[i])]

\* w.charAt(0).toUpperCase() + w.slice(1)
Capitalize(w) == IF w = <<>> THEN w ELSE <<UpperChar(w[1])>> \o Tail(w)

\* w.charAt(0).toLowerCase() + w.slice(1)
Uncapitalize(w) == IF w = <<>> THEN w ELSE <<LowerChar(w[1])>> \o Tail(w)

\* first 0-based position >= p holding (not holding) white space, or Len(s)
NextWS(s, p) ==
    LET hits == {i \in p..(Len(s) - 1) : s[i + 1] \in WS}
    IN  IF hits = {} THEN Len(s) ELSE CHOOSE i \in hits : \A j \in hits : i <= j

NextNonWS(s, p) ==
    LET hits == {i \in p..(Len(s) - 1) : s[i + 1] \notin WS}
    IN  IF hits = {} THEN Len(s) ELSE CHOOSE i \in hits : \A j \in hits : i <= j

RECURSIVE WordsFrom(_, _, _)
WordsFrom(s, p, acc) ==
    LET b == NextNonWS(s, p)
    IN  IF b >= Len(s) THEN acc
        ELSE LET e == NextWS(s, b)
             IN  WordsFrom(s, e, Append(acc, Substring(s, b, e)))

\* the non-empty elements of s.split(/\s+/): the maximal runs without white space
SplitWords(s) == WordsFrom(s, 0, <<>>)

\* s.split(sep) for a one-character separator
RECURSIVE SplitOn(_, _)
SplitOn(s, sep) ==
    LET p == IndexOf(s, <<sep>>)
    IN  IF p = -1 THEN <<s>>
        ELSE <<Substring(s, 0, p)>> \o SplitOn(SubstringFrom(s, p + 1), sep)

\* seq.slice(0, n)
Take(seq, n) == SubSeq(seq, 1, Min(n, Len(seq)))

RECURSIVE Dedup(_, _)
\* [...new Set(seq)] : first occurrences, in order
Dedup(seq, acc) ==
    IF seq = <<>> THEN acc
    ELSE IF \E i \in 1..Len(acc) : acc[i] = Head(seq) THEN Dedup(Tail(seq), acc)
    ELSE Dedup(Tail(seq), Append(acc, Head(seq)))

\* seq[0], or <<>> (falsy) when there is none
FirstOr(seq, other) == IF seq # <<>> THEN seq[1] ELSE other

-----------------------------------------------------------------------------
(* escapeString *)

RECURSIVE EscapeFrom(_, _)
EscapeFrom(s, i) ==
    IF i > Len(s) THEN <<>>
    ELSE (IF s[i] = "\"" THEN <<"\\", "\"">>
          ELSE IF s[i] = "\n" THEN <<"\\", "n">>
          ELSE <<s[i]>>) \o EscapeFrom(s, i + 1)

escapeString(text) == EscapeFrom(text, 1)

-----------------------------------------------------------------------------
(* Keyword extractor and name synthesizer *)

\* the entries of verbPatterns and nounPatterns that the chapter texts of the
\* model can spell (the lists are matched against whole lower-case words)
VerbWords == {<<"s", "e", "r">>, <<"t", "e", "r">>, <<"v", "e", "r">>, <<"d", "a", "r">>, <<"v", "i", "r">>, <<"l", "e", "r">>, <<"r", "i", "r">>}

NounWords == {<<"s", "o", "l">>, <<"l", "u", "a">>, <<"m", "a", "r">>, <<"r", "i", "o">>, <<"r", "u", "a">>, <<"p", "a", "i">>, <<"r", "e", "i">>, <<"t", "i", "o">>, <<"t", "i", "a">>, <<"c", "a", "s", "a">>, <<"m", "e", "s", "a">>, <<"d", "a", "m", "a">>, <<"g", "u", "i", "a">>, <<"c", "a", "b", "o">>, <<"v", "i", "l", "a">>}

\* text.toLowerCase().replace(/[^\w\s]/g, ' ')
CleanForWords(text) ==
    [i \in 1..Len(text) |->
        IF text[i] \in WordChars \cup WS THEN LowerChar(text[i]) ELSE " "]

\* does the first of the tokens start with a capital (of the ASCII alphabet)
StartsWithCapital(tokens) == tokens # <<>> /\ tokens[1][1] \in Uppers

\* originalWord && /^[A-Z...]/.test(originalWord), originalWord the first
\* white-space-separated token of the text that is the word once in lower case
IsProperNoun(text, word) ==
    StartsWithCapital(SelectSeq(SplitWords(text), LAMBDA tok : ToLowerCase(tok) = word))

\* the branch of the forEach that the word takes
WordClass(text, word) ==
    IF IsProperNoun(text, word) THEN "properNoun"
    ELSE IF word \in VerbWords THEN "verb"
    ELSE IF word \in NounWords \/ Len(word) > 4 THEN "noun"
    ELSE "none"

RECURSIVE OfClass(_, _, _, _)
\* the words pushed to the list of one class, from the i-th word on
OfClass(words, classes, class, i) ==
    IF i > Len(words) THEN <<>>
    ELSE (IF classes[i] = class THEN <<words[i]>> ELSE <<>>)
             \o OfClass(words, classes, class, i + 1)

Keywords(words, classes) ==
    [nouns       |-> Take(Dedup(OfClass(words, classes, "noun", 1), <<>>), 5),
     verbs       |-> Take(Dedup(OfClass(words, classes, "verb", 1), <<>>), 5),
     properNouns |-> Take(Dedup(OfClass(words, classes, "properNoun", 1), <<>>), 3),
     allWords    |-> Take(words, 10)]

ClassesOf(text, words) == [i \in 1..Len(words) |-> WordClass(text, words[i])]

KeywordsOfWords(text, words) == Keywords(words, ClassesOf(text, words))

extractKeywords(text) ==
    KeywordsOfWords(text, SelectSeq(SplitWords(CleanForWords(text)), LAMBDA w : Len(w) > 2))

Prefixes == <<<<"h", "a", "n", "d", "l", "e">>, <<"p", "r", "o", "c", "e", "s", "s">>, <<"r", "e", "n", "d", "e", "r">>, <<"f", "o", "r", "m", "a", "t">>, <<"c", "r", "e", "a", "t", "e">>, <<"g", "e", "t">>, <<"s", "e", "t">>>>

\* prefixes[Math.floor(Math.random() * prefixes.length)], the draw in thousandths
PickIndex(n, draw) == ((draw * n) \div 1000) + 1

\* the seed word in the order proper noun, noun, verb, any word
PreferredWordProperFirst(k) ==
    FirstOr(k.properNouns, FirstOr(k.nouns, FirstOr(k.verbs, FirstOr(k.allWords, <<>>))))

\* keywords.properNouns[0] || keywords.nouns[0] || keywords.verbs[0] || keywords.allWords[0]
PreferredVarWord(k) ==
    FirstOr(k.properNouns, FirstOr(k.nouns, FirstOr(k.verbs, FirstOr(k.allWords, <<>>))))

\* keywords.verbs[0] || keywords.nouns[0] || keywords.allWords[0]
PreferredFuncWord(k) == FirstOr(k.verbs, FirstOr(k.nouns, FirstOr(k.allWords, <<>>)))

\* keywords.nouns[0] || keywords.properNouns[0] || keywords.allWords[0]
PreferredTypeWord(k) == FirstOr(k.nouns, FirstOr(k.properNouns, FirstOr(k.allWords, <<>>)))

\* the name built around the preferred word, or around "content" without one
VarNameOf(preferredWord, suffix) ==
    IF preferredWord = <<>> THEN <<"c", "o", "n", "t", "e", "n", "t">> \o suffix ELSE preferredWord \o suffix

FuncNameOf(preferredWord, prefixChoice) ==
    IF preferredWord = <<>> THEN prefixChoice \o <<"C", "o", "n", "t", "e", "n", "t">>
    ELSE prefixChoice \o Capitalize(preferredWord)

TypeNameOf(preferredWord, suffix) ==
    IF preferredWord = <<>> THEN <<"C", "o", "n", "t", "e", "n", "t">> \o suffix
    ELSE Capitalize(preferredWord) \o suffix

\* prefix ? [prefix] : ['handle', 'process', ...]
PrefixesFor(prefix) == IF prefix # <<>> THEN <<prefix>> ELSE Prefixes

PrefixChoice(prefixes, draw) == prefixes[PickIndex(Len(prefixes), draw)]

generateContextualVarName(text, suffix) ==
    VarNameOf(PreferredVarWord(extractKeywords(text)), suffix)

generateContextualFuncName(text, prefix, draw) ==
    FuncNameOf(PreferredFuncWord(extractKeywords(text)), PrefixChoice(PrefixesFor(prefix), draw))

generateContextualTypeName(text, suffix) ==
    TypeNameOf(PreferredTypeWord(extractKeywords(text)), suffix)

-----------------------------------------------------------------------------
(* Output lines.  A line's content is a sequence whose elements are either one
   character of interpolated text or one fragment of the renderer's template;
   <span class="text-cursor-X">body</span> is written Span("X", body). *)

SOFT_LINE_LENGTH == 80

Span(cls, body) == <<"<span>", cls>> \o body \o <<"</span>">>

Kw(word) == Span("keyword", <<word>>)

Variable(body) == Span("variable", body)

StringSpan(body) == Span("string", body)

Comment(body) == Span("comment", body)

TypeSpan(body) == Span("type", body)

Func(body) == Span("function", body)

Control(word) == Span("control", <<word>>)

Property(word) == Span("property", <<word>>)

Br1(b) == Span("bracket-1", <<b>>)

Br2(b) == Span("bracket-2", <<b>>)

Br3(b) == Span("bracket-3", <<b>>)

Arrow == Span("operator", <<"=>">>)

Quoted(body) == StringSpan(<<"\"">> \o body \o <<"\"">>)

\* a template literal; its delimiter is written "[backtick]"
Backtick == "[backtick]"

Backticked(body) == StringSpan(<<Backtick>> \o body \o <<Backtick>>)

\* brokenLines.join of backslash-n: the pieces joined by a backslash and an n
JoinBroken(brokenLines) == Join(brokenLines, <<"\\", "n">>)

\* a renderer's run: the engine it advances and the lines it has pushed
Start(e) == [e |-> e, lines |-> <<>>]

\* the same push with the counter left where it was
PushSameNumber(r, content) ==
    [e |-> r.e, lines |-> Append(r.lines, [ln |-> r.e.lineNumber, content |-> content])]

\* lines.push({ ln: this.lineNumber++, content })
Push(r, content) ==
    [e     |-> [r.e EXCEPT !.lineNumber = @ + 1],
     lines |-> Append(r.lines, [ln |-> r.e.lineNumber, content |-> content])]

RECURSIVE PushAll(_, _)
\* contents.forEach(content => lines.push({ ln: this.lineNumber++, content }))
PushAll(r, contents) ==
    IF contents = <<>> THEN r ELSE PushAll(Push(r, Head(contents)), Tail(contents))

BlankLine == <<>>

CloseBrace == Br3("}")

\* const <varName> = <template literal of the pieces joined by backslash-n>;
ConstTemplate(indent, varName, brokenLines) ==
    indent \o Kw("const") \o <<" ">> \o Variable(varName) \o <<" = ">>
        \o Backticked(JoinBroken(brokenLines)) \o <<";">>

\* return <varName>;
ReturnVar(indent, varName) ==
    indent \o Control("return") \o <<" ">> \o Variable(varName) \o <<";">>

-----------------------------------------------------------------------------
(* Renderers of the three content classes *)

toStringLiteral(e, text) ==
    LET varName     == generateContextualVarName(text, <<"D", "i", "a", "l", "o", "g", "u", "e">>)
        escaped     == escapeString(text)
        brokenLines == breakLines(escaped, SOFT_LINE_LENGTH - 20)
    IN  IF Len(brokenLines) = 1
        THEN Push(Start(e), Kw("const") \o <<" ">> \o Variable(varName) \o <<" = ">>
                                \o Backticked(escaped) \o <<";">>)
        ELSE Push(Start(e), ConstTemplate(<<>>, varName, brokenLines))

toConditional(e, text) ==
    LET condition   == generateContextualVarName(text, <<"C", "o", "n", "d", "i", "t", "i", "o", "n">>)
        escaped     == escapeString(text)
        brokenLines == breakLines(escaped, SOFT_LINE_LENGTH - 10)
        varName     == generateContextualVarName(text, <<>>)
        head        == Push(Start(e), Kw("if") \o <<" (">> \o Variable(condition) \o <<") ">>
                                          \o Br3("{"))
        body        == IF Len(brokenLines) = 1
                       THEN Push(head, <<"  ">> \o Control("return") \o <<" ">>
                                           \o Quoted(escaped) \o <<";">>)
                       ELSE Push(Push(head, ConstTemplate(<<"  ">>, varName, brokenLines)),
                                 ReturnVar(<<"  ">>, varName))
    IN  Push(body, CloseBrace)

\* end of a match of /[,;]\s+(?:e|ou)\s+/i that starts at 0-based p, or -1
ConjunctionEnd(s, p) ==
    IF p >= Len(s) \/ s[p + 1] \notin {",", ";"} THEN -1
    ELSE LET q == NextNonWS(s, p + 1)
         IN  IF q = p + 1 THEN -1
             ELSE IF q + 1 < Len(s) /\ LowerChar(s[q + 1]) = "e" /\ s[q + 2] \in WS
                  THEN NextNonWS(s, q + 1)
             ELSE IF /\ q + 2 < Len(s)
                     /\ LowerChar(s[q + 1]) = "o" /\ LowerChar(s[q + 2]) = "u"
                     /\ s[q + 3] \in WS
                  THEN NextNonWS(s, q + 2)
             ELSE -1

\* end of a match of /,\s+/ that starts at 0-based p, or -1
CommaEnd(s, p) ==
    IF p + 1 >= Len(s) \/ s[p + 1] # "," \/ s[p + 2] \notin WS THEN -1
    ELSE NextNonWS(s, p + 1)

\* the separators toArrayLiteral splits on
MatchEnd(separator, s, p) ==
    IF separator = "conjunction" THEN ConjunctionEnd(s, p) ELSE CommaEnd(s, p)

RECURSIVE SplitByMatch(_, _)
\* s.split(regex) for either separator
SplitByMatch(s, separator) ==
    LET starts == {p \in 0..(Len(s) - 1) : MatchEnd(separator, s, p) # -1}
    IN  IF starts = {} THEN <<s>>
        ELSE LET p == CHOOSE x \in starts : \A y \in starts : x <= y
             IN  <<Substring(s, 0, p)>>
                     \o SplitByMatch(SubstringFrom(s, MatchEnd(separator, s, p)), separator)

\* (s.match(/,\s+/g) || []).length
CommaCount(s) == Cardinality({p \in 0..(Len(s) - 1) : CommaEnd(s, p) # -1})

\* length of the match of /^\d+\./, or 0
NumberMarkerLen(text) ==
    LET stops == {i \in 1..Len(text) : text[i] \notin Digits}
        first == IF stops = {} THEN Len(text) + 1
                 ELSE CHOOSE i \in stops : \A j \in stops : i <= j
    IN  IF first > 1 /\ first <= Len(text) /\ text[first] = "." THEN first ELSE 0

BulletMarkers == {"-", "*", "+"}

\* /^\d+\.|^[-*+]|^•/.test(text), the bullet character left out of the alphabet
HasListMarker(text) ==
    NumberMarkerLen(text) > 0 \/ (text # <<>> /\ text[1] \in BulletMarkers)

\* text.replace(/^\d+\.\s*|^[-*+•]\s*/, "")
StripListMarker(text) ==
    IF NumberMarkerLen(text) > 0 THEN SubstringFrom(text, NextNonWS(text, NumberMarkerLen(text)))
    ELSE IF text # <<>> /\ text[1] \in BulletMarkers THEN SubstringFrom(text, NextNonWS(text, 1))
    ELSE text

TrimmedNonEmpty(pieces) ==
    SelectSeq([i \in 1..Len(pieces) |-> Trim(pieces[i])], LAMBDA item : Len(item) > 0)

\* the first three items only
MaxListItems == 3

\* the same with every item kept
ListItemsKeepAll(items) == items

\* items.slice(0, 3)
ListItemsKept(items) == Take(items, MaxListItems)

\* the items of the chunk, before the cap
ListItems(text) ==
    LET cleaned == StripListMarker(text)
    IN  IF \E p \in 0..(Len(text) - 1) : ConjunctionEnd(text, p) # -1
        THEN TrimmedNonEmpty(SplitByMatch(text, "conjunction"))
        ELSE IF HasListMarker(text)
        THEN IF CommaCount(cleaned) >= 2
             THEN TrimmedNonEmpty(SplitByMatch(cleaned, "comma"))
             ELSE <<Trim(cleaned)>>
        ELSE <<Trim(text)>>

toArrayLiteral(e, text) ==
    LET finalItems   == ListItemsKept(ListItems(text))
        varName      == generateContextualVarName(text, <<"I", "t", "e", "m", "s">>)
        escapedItems == [i \in 1..Len(finalItems) |-> Quoted(escapeString(Trim(finalItems[i])))]
    IN  Push(Start(e), Kw("const") \o <<" ">> \o Variable(varName) \o <<" = ">> \o Br2("[")
                           \o Join(escapedItems, <<", ">>) \o Br2("]") \o <<";">>)

-----------------------------------------------------------------------------
(* Renderers of the narrative disguises *)

CommentLines(prefix, brokenLines) ==
    [i \in 1..Len(brokenLines) |-> Comment(prefix \o brokenLines[i])]

toInlineComment(e, text) ==
    LET escaped     == escapeString(text)
        brokenLines == breakLines(escaped, SOFT_LINE_LENGTH - 3)
    IN  PushAll(Start(e), CommentLines(<<"// ">>, brokenLines))

toBlockComment(e, text) ==
    LET brokenLines == breakLines(text, SOFT_LINE_LENGTH)
    IN  Push(PushAll(Push(Start(e), Comment(<<"/*">>)), CommentLines(<<" * ">>, brokenLines)),
             Comment(<<" */">>))

toJSDoc(e, text) ==
    LET brokenLines == breakLines(text, SOFT_LINE_LENGTH)
        docLines == [i \in 1..Len(brokenLines) |->
                        Comment((IF i = 1 THEN <<" * @description ">> ELSE <<" * ">>)
                                    \o brokenLines[i])]
    IN  Push(PushAll(Push(Start(e), Comment(<<"/**">>)), docLines), Comment(<<" */">>))

ConsoleCall(method, arg) ==
    Variable(<<"console">>) \o <<".">> \o Func(<<method>>) \o Br1("(") \o arg \o Br1(")") \o <<";">>

toConsoleLog(e, text) ==
    LET varName     == generateContextualVarName(text, <<>>)
        escaped     == escapeString(text)
        brokenLines == breakLines(escaped, SOFT_LINE_LENGTH - 20)
    IN  IF Len(brokenLines) = 1
        THEN Push(Start(e), ConsoleCall("log", Quoted(escaped)))
        ELSE Push(Push(Start(e), ConstTemplate(<<>>, varName, brokenLines)),
                  ConsoleCall("log", Variable(varName)))

toConstStatement(e, text) ==
    LET varName     == generateContextualVarName(text, <<>>)
        escaped     == escapeString(text)
        brokenLines == breakLines(escaped, SOFT_LINE_LENGTH - 20)
    IN  IF Len(brokenLines) = 1
        THEN Push(Start(e), Kw("const") \o <<" ">> \o Variable(varName) \o <<" = ">>
                                \o Quoted(escaped) \o <<";">>)
        ELSE Push(Start(e), ConstTemplate(<<>>, varName, brokenLines))

\* the two names are drawn one after the other
toImportStatement(e, text, draw1, draw2) ==
    LET moduleName == ToLowerCase(generateContextualFuncName(text, <<>>, draw1))
        importName == generateContextualFuncName(text, <<>>, draw2)
    IN  Push(Start(e), Kw("import") \o <<" ">> \o Br3("{") \o <<" ">> \o Variable(importName)
                           \o <<" ">> \o Br3("}") \o <<" ">> \o Kw("from") \o <<" ">>
                           \o StringSpan(<<"'./">> \o moduleName \o <<"'">>) \o <<";">>)

toExportStatement(e, text, draw) ==
    LET exportName == generateContextualFuncName(text, <<>>, draw)
        escaped    == escapeString(text)
    IN  Push(Start(e), Kw("export") \o <<" ">> \o Kw("const") \o <<" ">> \o Variable(exportName)
                           \o <<" = ">> \o Quoted(escaped) \o <<";">>)

toArrowFunction(e, text) ==
    LET funcName    == generateContextualVarName(text, <<>>)
        escaped     == escapeString(text)
        brokenLines == breakLines(escaped, SOFT_LINE_LENGTH - 30)
        head == Kw("const") \o <<" ">> \o Variable(funcName) \o <<" = ">> \o Br1("(")
                    \o Variable(<<"input">>) \o <<": ">> \o TypeSpan(<<"string">>) \o Br1(")")
                    \o <<" ">> \o Arrow \o <<" ">>
    IN  IF Len(brokenLines) = 1
        THEN Push(Start(e), head \o Backticked(escaped) \o <<";">>)
        ELSE Push(Start(e), head \o Backticked(JoinBroken(brokenLines)) \o <<";">>)

\* the body shared by toFunction and toMethodDefinition
ReturnBody(r, text, quotedReturn) ==
    LET escaped     == escapeString(text)
        brokenLines == breakLines(escaped, SOFT_LINE_LENGTH - 10)
        varName     == generateContextualVarName(text, <<>>)
    IN  IF Len(brokenLines) = 1
        THEN Push(r, <<"  ">> \o Control("return") \o <<" ">> \o quotedReturn \o <<";">>)
        ELSE Push(Push(r, ConstTemplate(<<"  ">>, varName, brokenLines)),
                  ReturnVar(<<"  ">>, varName))

toFunction(e, text, draw) ==
    LET funcName == generateContextualFuncName(text, <<>>, draw)
        head == Push(Start(e), Kw("function") \o <<" ">> \o Func(funcName) \o Br1("()")
                                   \o <<" ">> \o Br3("{"))
    IN  Push(ReturnBody(head, text, Quoted(escapeString(text))), CloseBrace)

toMethodDefinition(e, text, draw) ==
    LET methodName == generateContextualFuncName(text, <<>>, draw)
        head == Push(Start(e), Func(methodName) \o Br1("(") \o Variable(<<"data">>) \o <<": ">>
                                   \o TypeSpan(<<"string">>) \o Br1(")") \o <<": ">>
                                   \o TypeSpan(<<"string">>) \o <<" ">> \o Br3("{"))
    IN  Push(ReturnBody(head, text, Backticked(escapeString(text))), CloseBrace)

toAsyncFunction(e, text, draw) ==
    LET funcName    == generateContextualFuncName(text, <<>>, draw)
        escaped     == escapeString(text)
        brokenLines == breakLines(escaped, SOFT_LINE_LENGTH - 10)
        varName     == generateContextualVarName(text, <<>>)
        head == Push(Push(Start(e),
                          Kw("async") \o <<" ">> \o Kw("function") \o <<" ">> \o Func(funcName)
                              \o Br1("()") \o <<": ">> \o TypeSpan(<<"Promise">>) \o <<"&lt;">>
                              \o TypeSpan(<<"string">>) \o <<"&gt; ">> \o Br3("{")),
                     <<"  ">> \o Kw("try") \o <<" ">> \o Br3("{"))
        body == IF Len(brokenLines) = 1
                THEN Push(Push(head, <<"    ">> \o Kw("const") \o <<" ">> \o Variable(<<"result">>)
                                         \o <<" = ">> \o Backticked(escaped) \o <<";">>),
                          ReturnVar(<<"    ">>, <<"result">>))
                ELSE Push(Push(head, ConstTemplate(<<"    ">>, varName, brokenLines)),
                          ReturnVar(<<"    ">>, varName))
        catch == Push(body, <<"  ">> \o Br3("}") \o <<" ">> \o Kw("catch") \o <<" ">> \o Br1("(")
                                \o Variable(<<"error">>) \o Br1(")") \o <<" ">> \o Br3("{"))
        report == Push(catch, <<"    ">> \o ConsoleCall("error", Variable(<<"error">>)))
    IN  Push(Push(report, <<"  ">> \o Br3("}")), CloseBrace)

toGenericFunction(e, text, draw) ==
    LET funcName    == generateContextualFuncName(text, <<>>, draw)
        typeName    == generateContextualTypeName(text, <<>>)
        escaped     == escapeString(text)
        brokenLines == breakLines(escaped, SOFT_LINE_LENGTH - 10)
        head == Push(Start(e),
                     Kw("function") \o <<" ">> \o Func(funcName) \o <<"&lt;">> \o TypeSpan(<<"T">>)
                         \o <<" ">> \o Kw("extends") \o <<" ">> \o TypeSpan(typeName) \o <<"&gt;">>
                         \o Br1("(") \o Variable(<<"data">>) \o <<": ">> \o TypeSpan(<<"T">>)
                         \o Br1(")") \o <<": ">> \o TypeSpan(<<"T">>) \o <<" ">> \o Br3("{"))
        body == Push(head, <<"  ">> \o Kw("const") \o <<" ">> \o Variable(<<"content">>) \o <<" = ">>
                               \o Backticked(IF Len(brokenLines) = 1 THEN escaped
                                             ELSE JoinBroken(brokenLines)) \o <<";">>)
    IN  Push(Push(body, ReturnVar(<<"  ">>, <<"data">>)), CloseBrace)

\* word.toLowerCase().replace(/[^a-z]/g, "")
LettersOnly(word) == SelectSeq(ToLowerCase(word), LAMBDA c : c \in Lowers)

PropTypes == <<"string", "number", "boolean">>

toInterfaceDefinition(e, text) ==
    LET interfaceName == generateContextualTypeName(text, <<>>)
        keywords == extractKeywords(text)
        props    == Take(keywords.nouns, 3) \o Take(keywords.allWords, 2)
        propLines ==
            SelectSeq([i \in 1..Len(props) |->
                          IF Len(LettersOnly(props[i])) > 2
                          THEN <<"  ">> \o Span("property", LettersOnly(props[i])) \o <<": ">>
                                   \o TypeSpan(<<PropTypes[((i - 1) % 3) + 1]>>) \o <<";">>
                          ELSE <<>>],
                      LAMBDA c : c # <<>>)
        escaped      == escapeString(text)
        commentLines == breakLines(escaped, SOFT_LINE_LENGTH - 3)
        head == Push(Start(e), Kw("interface") \o <<" ">> \o TypeSpan(interfaceName) \o <<" ">>
                                   \o Br3("{"))
    IN  PushAll(Push(PushAll(head, propLines), CloseBrace), CommentLines(<<"// ">>, commentLines))

toClassDefinition(e, text) ==
    LET className   == generateContextualTypeName(text, <<>>)
        escaped     == escapeString(text)
        brokenLines == breakLines(escaped, SOFT_LINE_LENGTH - 25)
        head == Push(Push(Start(e),
                          Kw("class") \o <<" ">> \o TypeSpan(className) \o <<" ">> \o Br3("{")),
                     <<"  ">> \o Kw("constructor") \o Br1("(") \o Br1(")") \o <<" ">> \o Br3("{"))
        logs == [i \in 1..Len(brokenLines) |->
                    <<"    ">> \o ConsoleCall("log", Quoted(brokenLines[i]))]
    IN  Push(Push(PushAll(head, logs), <<"  ">> \o Br3("}")), CloseBrace)

toTypeDefinition(e, text) ==
    LET typeName == generateContextualTypeName(text, <<>>)
        escaped  == escapeString(text)
    IN  Push(Push(Start(e), Kw("type") \o <<" ">> \o TypeSpan(typeName) \o <<" = ">>
                                \o Kw("string") \o <<";">>),
             Comment(<<"// ">> \o escaped))

toTypeGuard(e, text) ==
    LET typeName == generateContextualTypeName(text, <<>>)
        escaped  == escapeString(text)
        head == Push(Start(e),
                     Kw("function") \o <<" ">> \o Func(<<"is">> \o typeName) \o Br1("(")
                         \o Variable(<<"obj">>) \o <<": ">> \o Kw("unknown") \o Br1(")") \o <<": ">>
                         \o Variable(<<"obj">>) \o <<" ">> \o Kw("is") \o <<" ">>
                         \o TypeSpan(typeName) \o <<" ">> \o Br3("{"))
        body == Push(Push(head, <<"  ">> \o Comment(<<"// ">> \o escaped)),
                     <<"  ">> \o Control("return") \o <<" ">> \o Kw("typeof") \o <<" ">>
                         \o Variable(<<"obj">>) \o <<" === ">> \o StringSpan(<<"\"string\"">>)
                         \o <<";">>)
    IN  Push(body, CloseBrace)

\* content: "<escaped>",
ContentProperty(escaped) ==
    <<"  ">> \o Property("content") \o <<": ">> \o Quoted(escaped) \o <<",">>

toMappedType(e, text) ==
    LET typeName == generateContextualTypeName(text, <<"K", "e", "y", "s">>)
        baseName == generateContextualTypeName(text, <<>>)
        escaped  == escapeString(text)
        config   == Variable(ToUpperCase(baseName) \o <<"_CONFIG">>)
        head == Push(Push(Start(e), Kw("const") \o <<" ">> \o config \o <<" = ">> \o Br3("{")),
                     ContentProperty(escaped))
        tail == Push(head, Br3("}") \o <<" ">> \o Kw("as") \o <<" ">> \o Kw("const") \o <<";">>)
    IN  Push(tail, Kw("type") \o <<" ">> \o TypeSpan(typeName) \o <<" = ">> \o Kw("keyof")
                       \o <<" ">> \o Kw("typeof") \o <<" ">> \o config \o <<";">>)

\* the characters of the text that reach the template literal type
TemplateIdLength == 20

RECURSIVE UnderscoreRuns(_, _)
\* s.replace(/\s+/g, '_') from 1-based position i
UnderscoreRuns(s, i) ==
    IF i > Len(s) THEN <<>>
    ELSE IF s[i] \in WS THEN <<"_">> \o UnderscoreRuns(s, NextNonWS(s, i) + 1)
    ELSE <<s[i]>> \o UnderscoreRuns(s, i + 1)

toTemplateLiteralType(e, text) ==
    LET typeName == generateContextualTypeName(text, <<"I", "d">>)
        escaped  == escapeString(text)
    IN  Push(Start(e), Kw("type") \o <<" ">> \o TypeSpan(typeName) \o <<" = ">>
                           \o Backticked(<<"scene_">>
                                  \o UnderscoreRuns(Substring(escaped, 0, TemplateIdLength), 1))
                           \o <<";">>)

toNamespace(e, text) ==
    LET namespaceName == generateContextualTypeName(text, <<>>)
        escaped       == escapeString(text)
        head == Push(Start(e), Kw("namespace") \o <<" ">> \o TypeSpan(namespaceName) \o <<" ">>
                                   \o Br3("{"))
    IN  Push(Push(head, <<"  ">> \o Kw("export") \o <<" ">> \o Kw("const") \o <<" ">>
                            \o Variable(<<"content">>) \o <<" = ">> \o Quoted(escaped) \o <<";">>),
             CloseBrace)

toDestructuring(e, text) ==
    LET varName == generateContextualVarName(text, <<>>)
        escaped == escapeString(text)
        data    == Variable(varName \o <<"Data">>)
        head == Push(Push(Start(e), Kw("const") \o <<" ">> \o data \o <<" = ">> \o Br3("{")),
                     ContentProperty(escaped))
    IN  Push(Push(head, Br3("}") \o <<";">>),
             Kw("const") \o <<" ">> \o Br3("{") \o <<" ">> \o Variable(<<"content">>) \o <<" ">>
                 \o Br3("}") \o <<" = ">> \o data \o <<";">>)

toArrayChain(e, text) ==
    LET escaped     == escapeString(text)
        brokenLines == breakLines(escaped, SOFT_LINE_LENGTH - 30)
        head == Push(Start(e), Kw("const") \o <<" ">> \o Variable(<<"items">>) \o <<" = ">>
                                   \o Br2("[") \o Quoted(brokenLines[1]) \o Br2("]"))
        filter == Push(head, <<"  .">> \o Func(<<"filter">>) \o Br1("(") \o Variable(<<"item">>)
                                 \o <<" ">> \o Arrow \o <<" ">> \o Variable(<<"item">>) \o <<".">>
                                 \o Func(<<"length">>) \o <<" > ">> \o Span("number", <<"0">>)
                                 \o Br1(")"))
        map == Push(filter, <<"  .">> \o Func(<<"map">>) \o Br1("(") \o Variable(<<"item">>)
                                \o <<" ">> \o Arrow \o <<" ">> \o Backticked(escaped) \o Br1(")"))
    IN  Push(map, <<"  .">> \o Func(<<"join">>) \o Br1("(") \o StringSpan(<<"' '">>) \o Br1(")")
                      \o <<";">>)

toOptionalChaining(e, text) ==
    LET varName == generateContextualVarName(text, <<>>)
        escaped == escapeString(text)
    IN  Push(Start(e), Kw("const") \o <<" ">> \o Variable(varName) \o <<" = ">>
                           \o Variable(<<"scene">>) \o <<"?.">> \o Property("content") \o <<"?.">>
                           \o Property("text") \o <<" ?? ">> \o Quoted(escaped) \o <<";">>)

toNullishCoalescing(e, text) ==
    LET varName == generateContextualVarName(text, <<>>)
        escaped == escapeString(text)
    IN  Push(Start(e), Kw("const") \o <<" ">> \o Variable(varName) \o <<" = ">>
                           \o Variable(<<"chapter">>) \o <<".">> \o Property("title") \o <<" ?? ">>
                           \o Quoted(escaped) \o <<";">>)

-----------------------------------------------------------------------------
(* Image elements *)

\* parts[i] || fallback, i 0-based
PartOr(parts, i, fallback) ==
    IF i < Len(parts) /\ parts[i + 1] # <<>> THEN parts[i + 1] ELSE fallback

createImageElement(e, imageDesc) ==
    LET parts == SplitOn(imageDesc, "|")
        src   == PartOr(parts, 1, <<>>)
        alt   == PartOr(parts, 2, <<"I", "m", "a", "g", "e", "m">>)
        head  == Push(Start(e), Comment(<<"// [picture] ">> \o alt))
    IN  IF src # <<>>
        THEN Push(head, <<"<div class=\"epub-image-container\"><img src=\"">> \o src
                            \o <<"\" alt=\"">> \o escapeString(alt) \o <<"\" /></div>">>)
        ELSE Push(head, Kw("const") \o <<" ">> \o Variable(<<"imagePlaceholder">>) \o <<" = ">>
                            \o Quoted(escapeString(alt)) \o <<";">>)

-----------------------------------------------------------------------------
(* Content classification.  The em dash, the bullet and the curly quotation
   marks of the patterns are outside the alphabet of the chapter texts. *)

\* text.startsWith(pat), ignoring case
StartsWithIgnoringCase(text, pat) ==
    Len(text) >= Len(pat) /\ ToLowerCase(SubSeq(text, 1, Len(pat))) = ToLowerCase(pat)

isDialogue(text) ==
    \/ text # <<>> /\ text[1] = "\""
    \/ text # <<>> /\ text[1] = "-"
    \/ \E i \in 1..Len(text) : text[i] \in {"'", "\""}

isListItem(text) ==
    \/ HasListMarker(text)
    \/ \E p \in 0..(Len(text) - 1) :
          /\ text[p + 1] \in {",", ";"}
          /\ \/ OccursAt(text, <<" ", "e", " ">>, p + 1)
             \/ OccursAt(text, <<" ", "o", "u", " ">>, p + 1)

QuestionOpeners == {<<"C", "o", "m", "o">>, <<"P", "o", "r", " ", "q", "u", "e">>, <<"Q", "u", "a", "n", "d", "o">>, <<"O", "n", "d", "e">>, <<"Q", "u", "e", "m">>, <<"Q", "u", "a", "l">>}

isQuestion(text) ==
    \/ text # <<>> /\ text[Len(text)] \in {"?", "!"}
    \/ \E opener \in QuestionOpeners : StartsWithIgnoringCase(text, opener)

-----------------------------------------------------------------------------
(* Structure selector.  Every Math.random() is a draw in thousandths, 0..999. *)

\* the menu below 50 characters with the block comment in it
ShortBandWithBlock == <<"inline-comment", "const", "console-log", "comment">>

ShortBand == <<"inline-comment", "const", "console-log", "arrow-function">>

MediumBand ==
    <<"function", "arrow-function", "const", "comment", "jsdoc", "console-log", "destructuring">>

LongBand ==
    <<"function", "async-function", "arrow-function", "method", "jsdoc", "comment",
      "type-definition", "interface", "array-chain", "optional-chaining">>

VeryLongBand ==
    <<"async-function", "function", "jsdoc", "comment", "class", "interface",
      "type-definition", "namespace", "generic-function", "type-guard">>

BaseStructures(textLength) ==
    IF textLength < 50 THEN ShortBand
    ELSE IF textLength < 100 THEN MediumBand
    ELSE IF textLength < 200 THEN LongBand
    ELSE VeryLongBand

ImportAfter == 5

TypesAfter == 10

ExportAfter == 15

TypesChance == 300

ExportChance == 200

\* the menu, in the order the code pushes it
\* the menu with the added kinds offered from the first call
AvailableStructuresFromStart(e, textLength, drawTypes, drawExport) ==
    BaseStructures(textLength)
        \o (IF ~e.hasImports THEN <<"import">> ELSE <<>>)
        \o (IF drawTypes < TypesChance
            THEN <<"type-definition", "mapped-type", "template-literal-type">> ELSE <<>>)
        \o (IF drawExport < ExportChance THEN <<"export">> ELSE <<>>)

AvailableStructures(e, textLength, drawTypes, drawExport) ==
    BaseStructures(textLength)
        \o (IF e.structureCount > ImportAfter /\ ~e.hasImports THEN <<"import">> ELSE <<>>)
        \o (IF e.structureCount > TypesAfter /\ drawTypes < TypesChance
            THEN <<"type-definition", "mapped-type", "template-literal-type">> ELSE <<>>)
        \o (IF e.structureCount > ExportAfter /\ drawExport < ExportChance
            THEN <<"export">> ELSE <<>>)

RecentWindowSize == 5

RecentKept == 10

\* seq.slice(-n)
LastN(seq, n) == SubSeq(seq, Max(Len(seq) - n, 0) + 1, Len(seq))

\* the same window two selections shorter
RecentWindowOfThree(recentStructures) == LastN(recentStructures, 3)

\* this.recentStructures.slice(-5)
RecentWindow(recentStructures) == LastN(recentStructures, RecentWindowSize)

InSeq(x, seq) == \E i \in 1..Len(seq) : seq[i] = x

selectStructure(e, textLength, drawTypes, drawExport, drawPick) ==
    LET availableStructures == AvailableStructures(e, textLength, drawTypes, drawExport)
        recent     == RecentWindow(e.recentStructures)
        filtered   == SelectSeq(availableStructures, LAMBDA s : ~InSeq(s, recent))
        candidates == IF Len(filtered) > 0 THEN filtered ELSE availableStructures
        selected   == candidates[PickIndex(Len(candidates), drawPick)]
        pushed     == Append(e.recentStructures, selected)
    IN  [e |-> [e EXCEPT !.recentStructures =
                             IF Len(pushed) > RecentKept THEN Tail(pushed) ELSE pushed,
                         !.structureCount = @ + 1,
                         !.hasImports = @ \/ selected = "import",
                         !.hasExports = @ \/ selected = "export"],
         selected  |-> selected,
         menu      |-> {availableStructures[i] : i \in 1..Len(availableStructures)},
         recent    |-> recent,
         textLength |-> textLength]

-----------------------------------------------------------------------------
(* processParagraph.  draws holds the draws a chunk can consume, in the order
   the code makes them: types, export, pick (selector), name1, name2 (names). *)

Render(structure, e, text, draw1, draw2) ==
    CASE structure = "import"                -> toImportStatement(e, text, draw1, draw2)
      [] structure = "type-definition"       -> toTypeDefinition(e, text)
      [] structure = "interface"             -> toInterfaceDefinition(e, text)
      [] structure = "class"                 -> toClassDefinition(e, text)
      [] structure = "const"                 -> toConstStatement(e, text)
      [] structure = "function"              -> toFunction(e, text, draw1)
      [] structure = "async-function"        -> toAsyncFunction(e, text, draw1)
      [] structure = "arrow-function"        -> toArrowFunction(e, text)
      [] structure = "generic-function"      -> toGenericFunction(e, text, draw1)
      [] structure = "method"                -> toMethodDefinition(e, text, draw1)
      [] structure = "jsdoc"                 -> toJSDoc(e, text)
      [] structure = "comment"               -> toBlockComment(e, text)
      [] structure = "inline-comment"        -> toInlineComment(e, text)
      [] structure = "console-log"           -> toConsoleLog(e, text)
      [] structure = "type-guard"            -> toTypeGuard(e, text)
      [] structure = "mapped-type"           -> toMappedType(e, text)
      [] structure = "template-literal-type" -> toTemplateLiteralType(e, text)
      [] structure = "namespace"             -> toNamespace(e, text)
      [] structure = "destructuring"         -> toDestructuring(e, text)
      [] structure = "array-chain"           -> toArrayChain(e, text)
      [] structure = "optional-chaining"     -> toOptionalChaining(e, text)
      [] structure = "nullish-coalescing"    -> toNullishCoalescing(e, text)
      [] structure = "export"                -> toExportStatement(e, text, draw1)
      [] OTHER                               -> toInlineComment(e, text)

\* no selector call was made for the chunk
NoSelection ==
    [selected |-> "none", menu |-> {}, recent |-> <<>>, textLength |-> 0, textType |-> "none"]

Classified(run, textType) ==
    [e |-> run.e, lines |-> run.lines,
     selection |-> [NoSelection EXCEPT !.textType = textType]]

\* the lines of a narrative chunk and what the selector did for it
Selected(run, s) ==
    [e |-> run.e, lines |-> run.lines,
     selection |-> [selected |-> s.selected, menu |-> s.menu, recent |-> s.recent,
                    textLength |-> s.textLength, textType |-> "narrative"]]

\* the switch over the structure that selectStructure returned
Routed(s, trimmed, draws) ==
    Selected(Render(s.selected, s.e, trimmed, draws.name1, draws.name2), s)

\* the same tests with the question test made first
ClassifyQuestionFirst(e, trimmed, draws) ==
    IF isQuestion(trimmed) THEN Classified(toConditional(e, trimmed), "question")
    ELSE IF isDialogue(trimmed) THEN Classified(toStringLiteral(e, trimmed), "dialogue")
    ELSE IF isListItem(trimmed) THEN Classified(toArrayLiteral(e, trimmed), "list")
    ELSE Routed(selectStructure(e, Len(trimmed), draws.types, draws.export, draws.pick),
                trimmed, draws)

Classify(e, trimmed, draws) ==
    IF isDialogue(trimmed) THEN Classified(toStringLiteral(e, trimmed), "dialogue")
    ELSE IF isListItem(trimmed) THEN Classified(toArrayLiteral(e, trimmed), "list")
    ELSE IF isQuestion(trimmed) THEN Classified(toConditional(e, trimmed), "question")
    ELSE Routed(selectStructure(e, Len(trimmed), draws.types, draws.export, draws.pick),
                trimmed, draws)

processParagraph(e, text, draws) == Classify(e, Trim(text), draws)

-----------------------------------------------------------------------------
(* The work of one transform call, in the order the loops of transform do it *)

\* the opening of a marker spelt [IMAGE:
ClaimedImageMarker == <<"[", "I", "M", "A", "G", "E", ":">>

ImageMarker == <<"[", "I", "M", "A", "G", "E", "M", ":">>

\* 0-based position of the "]" closing a marker that opens at p, or -1:
\* /\[IMAGEM:([^\]]+)\]/ needs at least one character before it
ImageClose(text, p) ==
    LET from   == p + Len(ImageMarker)
        closes == {q \in from..(Len(text) - 1) : text[q + 1] = "]"}
        q0     == CHOOSE q \in closes : \A r \in closes : q <= r
    IN  IF ~OccursAt(text, ImageMarker, p) \/ closes = {} THEN -1
        ELSE IF q0 = from THEN -1 ELSE q0

RECURSIVE SplitImages(_)
\* text.split(imageRegex): text, capture, text, capture, ..., text
SplitImages(text) ==
    LET opens == {p \in 0..(Len(text) - 1) : ImageClose(text, p) # -1}
    IN  IF opens = {} THEN <<text>>
        ELSE LET p == CHOOSE x \in opens : \A y \in opens : x <= y
                 q == ImageClose(text, p)
             IN  <<Substring(text, 0, p), Substring(text, p + Len(ImageMarker), q)>>
                     \o SplitImages(SubstringFrom(text, q + 1))

BlankItem == [type |-> "blank", text |-> <<>>]

ChunkItems(chunks) == [i \in 1..Len(chunks) |-> [type |-> "chunk", text |-> chunks[i]]]

RECURSIVE LineItems(_, _, _)
\* the loop over textLines, lineIdx 1-based
LineItems(textLines, lineIdx, previousLineWasEmpty) ==
    IF lineIdx > Len(textLines) THEN <<>>
    ELSE LET trimmedLine == Trim(textLines[lineIdx])
             isNextLineEmpty ==
                 lineIdx = Len(textLines) \/ Trim(textLines[lineIdx + 1]) = <<>>
             isParagraphBreak == isNextLineEmpty /\ lineIdx < Len(textLines)
         IN  IF trimmedLine = <<>>
             THEN (IF previousLineWasEmpty THEN <<>> ELSE <<BlankItem>>)
                      \o LineItems(textLines, lineIdx + 1, TRUE)
             ELSE ChunkItems(splitParagraphIntoCodeBlocks(trimmedLine))
                      \o (IF isParagraphBreak THEN <<BlankItem>> ELSE <<>>)
                      \o LineItems(textLines, lineIdx + 1, FALSE)

RECURSIVE PartItems(_, _)
\* the loop over parts, i 0-based
PartItems(parts, i) ==
    IF i >= Len(parts) THEN <<>>
    ELSE (IF i % 2 = 1
          THEN <<[type |-> "image", text |-> Trim(parts[i + 1])], BlankItem>>
          ELSE IF Trim(parts[i + 1]) # <<>>
          THEN LineItems(SplitOn(parts[i + 1], "\n"), 1, FALSE)
          ELSE <<>>)
         \o PartItems(parts, i + 1)

WorkItems(text) == PartItems(SplitImages(text), 0)

\* text.split('\n')[0] || text
FirstLineOr(text) ==
    LET first == SplitOn(text, "\n")[1]
    IN  IF first # <<>> THEN first ELSE text

\* text.split('\n').filter(l => l.trim()).slice(-1)[0] || text
LastLineOr(text) ==
    LET kept == SelectSeq(SplitOn(text, "\n"), LAMBDA l : Trim(l) # <<>>)
    IN  IF kept # <<>> THEN kept[Len(kept)] ELSE text

-----------------------------------------------------------------------------
(* Inputs of the pure-function specifications *)

\* all sequences over S of length 1..n
SeqsUpTo(S, n) == UNION {[1..k -> S] : k \in 1..n}

MaxPieces == 3

\* a sentence: n letters and its closing punctuation (none: an open tail)
Piece(n, term) == Rep("a", n) \o term

SegPieces ==
    {Piece(n, term) : n \in {20, 45, 120, 190}, term \in {<<".">>, <<"?", "!">>, <<>>}}

\* paragraphs as transform passes them: trimmed lines, sentences one space apart
SegInputs == {Join(ps, <<" ">>) : ps \in SeqsUpTo(SegPieces, MaxPieces)}

MaxWords == 3

WrapWidths == {10, 50, 80}

\* words shorter than, about half of, and longer than the width
WrapWords(w) == {Rep("a", n) : n \in {w \div 3, (w \div 2) + 1, w + 2}}

WrapSeps == {<<" ">>, <<",", " ">>, <<".", " ">>, SentenceEndSource}

RECURSIVE WrapTexts(_, _)
\* texts of 1..k words of WrapWords(w), each two joined by one of WrapSeps
WrapTexts(w, k) ==
    IF k = 1 THEN WrapWords(w)
    ELSE WrapTexts(w, k - 1)
         \cup {t \o sep \o wd : t \in WrapTexts(w, k - 1), sep \in WrapSeps,
                                wd \in WrapWords(w)}

WrapInputs ==
    UNION {{[text |-> t, maxLength |-> w] : t \in WrapTexts(w, MaxWords)}
              : w \in WrapWidths}

-----------------------------------------------------------------------------
(* Engine state *)

\* the field initialisers of class Codeifier
NewCodeifier ==
    [lineNumber       |-> 1,
     recentStructures |-> <<>>,
     structureCount   |-> 0,
     hasImports       |-> FALSE,
     hasExports       |-> FALSE,
     fileSection      |-> "imports"]

NoOutput == [status |-> "none", lines |-> <<>>]

NoCount == [imports |-> 0, exports |-> 0]

\* the engine untouched: the pure-function specifications leave it alone
EngineAtRest ==
    /\ eng = NewCodeifier
    /\ out = NoOutput
    /\ todo = <<>>
    /\ pc = "idle"
    /\ lastText = <<>>
    /\ sinceReset = 0
    /\ nCalls = 0
    /\ emitted = NoCount
    /\ lastSelection = NoSelection
    /\ resetFound = "fresh"

engineVars == <<eng, out, todo, pc, lastText, sinceReset, nCalls, emitted, lastSelection,
                resetFound>>

fnVars == <<fnArg, fnRes, fnDone>>

\* no pure function under check: the engine specifications leave these alone
FnAtRest ==
    /\ fnArg = <<>>
    /\ fnRes = <<>>
    /\ fnDone = FALSE

\* no book store: the specifications of the engine alone leave it out
StoreAtRest == store = <<>>

-----------------------------------------------------------------------------
(* Random draws.  A draw stands for Math.random() in thousandths. *)

\* one draw below and one at or above every threshold the code compares with
ChanceDraws == {0, 999}

ImportChance == 700

FinalExportChance == 400

\* one draw for each outcome of Math.floor(Math.random() * n)
PickDraws(n) == {((1000 * k) + n - 1) \div n : k \in 0..(n - 1)}

\* the draws that pick the first and the last of n candidates
EdgePickDraws(n) == {0, ((1000 * (n - 1)) + n - 1) \div n}

NameDrawCount == 2

\* draws that pick NameDrawCount of the seven name prefixes
NameDraws == {(1000 * k) \div NameDrawCount : k \in 0..(NameDrawCount - 1)}

\* the draws a chunk can consume; a draw the code does not make is fixed at 0
TypesDrawsOf(e) == IF e.structureCount > TypesAfter THEN ChanceDraws ELSE {0}

ExportDrawsOf(e) == IF e.structureCount > ExportAfter THEN ChanceDraws ELSE {0}

\* the candidates the selector picks from
Candidates(e, textLength, drawTypes, drawExport) ==
    LET availableStructures == AvailableStructures(e, textLength, drawTypes, drawExport)
        recent   == RecentWindow(e.recentStructures)
        filtered == SelectSeq(availableStructures, LAMBDA s : ~InSeq(s, recent))
    IN  IF Len(filtered) > 0 THEN filtered ELSE availableStructures

IsNarrative(text) ==
    ~isDialogue(Trim(text)) /\ ~isListItem(Trim(text)) /\ ~isQuestion(Trim(text))

\* the picks tried: the first candidate only while the selector has been
\* called fewer than firstBelow times, then the two ends or every candidate
PickDrawsOf(e, text, drawTypes, drawExport, edgesOnly, firstBelow) ==
    IF ~IsNarrative(text) \/ e.structureCount < firstBelow THEN {0}
    ELSE LET n == Len(Candidates(e, Len(Trim(text)), drawTypes, drawExport))
         IN  IF edgesOnly THEN EdgePickDraws(n) ELSE PickDraws(n)

\* how many names the renderer of a structure draws a prefix for
NamesDrawn(structure) ==
    IF structure = "import" THEN 2
    ELSE IF structure \in {"function", "async-function", "generic-function", "method", "export"}
    THEN 1
    ELSE 0

NameDrawsOf(e, text, drawTypes, drawExport, drawPick, nth) ==
    IF ~IsNarrative(text) THEN {0}
    ELSE LET s == selectStructure(e, Len(Trim(text)), drawTypes, drawExport, drawPick)
         IN  IF NamesDrawn(s.selected) >= nth THEN NameDraws ELSE {0}

-----------------------------------------------------------------------------
(* The engine's operations *)

\* reset with the usage counter left as it was
resetKeepingCount(e) ==
    [e EXCEPT !.lineNumber = 1, !.recentStructures = <<>>,
              !.hasImports = FALSE, !.hasExports = FALSE, !.fileSection = "imports"]

reset(e) ==
    [e EXCEPT !.lineNumber = 1, !.recentStructures = <<>>, !.structureCount = 0,
              !.hasImports = FALSE, !.hasExports = FALSE, !.fileSection = "imports"]

IsImportLine(line) == OccursAt(line.content, Kw("import"), 0)

IsExportLine(line) == OccursAt(line.content, Kw("export"), 0)

\* the count so far plus the import and export lines among newLines
Emitted(count, newLines) ==
    [imports |-> count.imports
                     + Cardinality({i \in 1..Len(newLines) : IsImportLine(newLines[i])}),
     exports |-> count.exports
                     + Cardinality({i \in 1..Len(newLines) : IsExportLine(newLines[i])})]

\* what the caller holds of the lines: all of each, or its number only
Held(newLines, keepContent) ==
    IF keepContent THEN newLines
    ELSE [i \in 1..Len(newLines) |-> [ln |-> newLines[i].ln, content |-> <<>>]]

MaxCalls == 2

\* codeifier.reset(); the caller has let go of the lines of the previous chapter
ResetEngine ==
    /\ eng' = reset(eng)
    /\ out' = NoOutput
    /\ lastText' = <<>>
    /\ sinceReset' = 0
    /\ emitted' = NoCount
    /\ lastSelection' = NoSelection
    /\ resetFound' = IF eng = NewCodeifier THEN "fresh" ELSE "used"

Reset ==
    /\ pc = "idle"
    /\ ResetEngine
    /\ UNCHANGED <<todo, pc, nCalls, fnVars, store>>

\* lines.push(...run.lines): the engine as the run left it, the lines after
\* those the call already has
Appended(run, status, keepContent) ==
    /\ eng' = run.e
    /\ out' = [status |-> status, lines |-> out.lines \o Held(run.lines, keepContent)]
    /\ emitted' = Emitted(emitted, run.lines)

\* one run after another
Then(first, second) == [e |-> second.e, lines |-> first.lines \o second.lines]

\* this.hasImports = true
FlagImports(run) == [run EXCEPT !.e.hasImports = TRUE]

\* this.hasExports = true
FlagExports(run) == [run EXCEPT !.e.hasExports = TRUE]

\* if (Math.random() < 0.7 && this.structureCount === 0) { ... }
ImportScaffolding(e, text, draw, draw1, draw2) ==
    IF draw < ImportChance /\ e.structureCount = 0
    THEN FlagImports(toImportStatement(e, FirstLineOr(text), draw1, draw2))
    ELSE Start(e)

ExportAfterBlank(blank, text, draw) == Then(blank, toExportStatement(blank.e, text, draw))

\* if (lines.length > 10 && Math.random() < 0.4 && !this.hasExports) { ... }
ExportScaffolding(e, text, lineCount, draw, draw1) ==
    IF lineCount > 10 /\ draw < FinalExportChance /\ ~e.hasExports
    THEN FlagExports(ExportAfterBlank(Push(Start(e), BlankLine), LastLineOr(text), draw1))
    ELSE Start(e)

\* transform(text), up to the loop over the parts: the import scaffolding
BeginTransform(chapters, keepContent) ==
    /\ pc = "idle"
    /\ nCalls < MaxCalls
    /\ \E text \in chapters, draw \in ChanceDraws :
         \E draw1, draw2 \in (IF draw < ImportChance /\ eng.structureCount = 0
                              THEN NameDraws ELSE {0}) :
           /\ Appended(ImportScaffolding(eng, text, draw, draw1, draw2), "running", keepContent)
           /\ todo' = WorkItems(text)
           /\ lastText' = text
    /\ pc' = "running"
    /\ sinceReset' = sinceReset + 1
    /\ nCalls' = nCalls + 1
    /\ UNCHANGED <<lastSelection, resetFound, fnVars, store>>

\* lines.push({ ln: this.lineNumber++, content: "" })
BlankStep ==
    /\ pc = "running"
    /\ todo # <<>>
    /\ Head(todo).type = "blank"
    /\ Appended(Push(Start(eng), BlankLine), "running", TRUE)
    /\ todo' = Tail(todo)
    /\ UNCHANGED <<pc, lastText, sinceReset, nCalls, lastSelection, resetFound, fnVars, store>>

\* lines.push(...this.createImageElement(imageDesc))
ImageStep(keepContent) ==
    /\ pc = "running"
    /\ todo # <<>>
    /\ Head(todo).type = "image"
    /\ Appended(createImageElement(eng, Head(todo).text), "running", keepContent)
    /\ todo' = Tail(todo)
    /\ UNCHANGED <<pc, lastText, sinceReset, nCalls, lastSelection, resetFound, fnVars, store>>

ChunkAppended(run, keepContent) ==
    /\ Appended(run, "running", keepContent)
    /\ lastSelection' = run.selection

\* lines.push(...this.processParagraph(chunk))
ChunkStep(keepContent, edgesOnly, firstBelow) ==
    /\ pc = "running"
    /\ todo # <<>>
    /\ Head(todo).type = "chunk"
    /\ \E types \in TypesDrawsOf(eng), export \in ExportDrawsOf(eng) :
         \E pick \in PickDrawsOf(eng, Head(todo).text, types, export, edgesOnly,
                                   firstBelow) :
           \E name1 \in NameDrawsOf(eng, Head(todo).text, types, export, pick, 1),
              name2 \in NameDrawsOf(eng, Head(todo).text, types, export, pick, 2) :
             ChunkAppended(processParagraph(eng, Head(todo).text,
                               [types |-> types, export |-> export, pick |-> pick,
                                name1 |-> name1, name2 |-> name2]),
                           keepContent)
    /\ todo' = Tail(todo)
    /\ UNCHANGED <<pc, lastText, sinceReset, nCalls, resetFound, fnVars, store>>

\* the export scaffolding and the return
FinishTransform(keepContent) ==
    /\ pc = "running"
    /\ todo = <<>>
    /\ \E draw \in (IF Len(out.lines) > 10 THEN ChanceDraws ELSE {0}) :
         \E draw1 \in (IF Len(out.lines) > 10 /\ draw < FinalExportChance /\ ~eng.hasExports
                       THEN NameDraws ELSE {0}) :
           Appended(ExportScaffolding(eng, lastText, Len(out.lines), draw, draw1),
                    "returned", keepContent)
    /\ pc' = "idle"
    /\ UNCHANGED <<todo, lastText, sinceReset, nCalls, lastSelection, resetFound, fnVars, store>>

\* an exception raised while an image or a chunk is rendered: nothing in
\* transform or processParagraph catches it, so the call ends without lines
RenderThrows ==
    /\ pc = "running"
    /\ todo # <<>>
    /\ Head(todo).type \in {"image", "chunk"}
    /\ out' = [status |-> "thrown", lines |-> <<>>]
    /\ todo' = <<>>
    /\ pc' = "idle"
    /\ UNCHANGED <<eng, lastText, sinceReset, nCalls, emitted, lastSelection, resetFound, fnVars, store>>

-----------------------------------------------------------------------------
(* Spec: the engine fed whole chapters, lines kept in full *)

EmptyChapter == <<>>

BlankChapter == <<" ", "\n", "\n", " ">>

DialogueChapter == <<"-", " ", "O", "l", "a", ",", " ", "d", "i", "s", "s", "e", " ", "A", "n", "a", ".">>

ShortChapter == <<"A", "n", "a", " ", "v", "e", " ", "o", " ", "m", "a", "r", ".">>

\* two paragraphs, two blank lines apart
ParagraphsChapter == <<"O", " ", "r", "e", "i", " ", "v", "e", " ", "a", " ", "l", "u", "a", ".", "\n", "\n", "\n", "A", " ", "d", "a", "m", "a", " ", "r", "i", ".">>

ListChapter == <<"1", ".", " ", "s", "o", "l", ",", " ", "l", "u", "a", ",", " ", "m", "a", "r", ",", " ", "r", "i", "o">>

\* four questions: with the braces around them, more than ten lines
QuestionsChapter == <<"Q", "u", "e", "m", " ", "r", "i", "?", "\n", "Q", "u", "e", "m", " ", "v", "e", "?", "\n", "Q", "u", "e", "m", " ", "v", "e", "m", "?", "\n", "Q", "u", "e", "m", " ", "l", "e", "?">>

\* a narrative line of the 50..99 band, longer than the widths 50 and 60
MediumChapter == <<"O", " ", "r", "e", "i", " ", "d", "a", " ", "v", "i", "l", "a", " ", "v", "e", " ", "a", " ", "l", "u", "a", " ", "e", " ", "o", " ", "s", "o", "l", " ", "e", " ", "s", "o", "b", "e", " ", "a", " ", "r", "u", "a", " ", "d", "a", " ", "c", "a", "s", "a", " ", "d", "a", " ", "t", "i", "a", " ", "A", "n", "a", ".">>

\* the marker the EPUB reader leaves for an image with a source
ImageChapter == <<"-", " ", "O", "l", "a", ".", "\n", "[", "I", "M", "A", "G", "E", "M", ":", "|", "a", ".", "p", "n", "g", "|", "M", "a", "p", "a", "]", "\n", "-", " ", "A", "n", "a", ".">>

Chapters ==
    {EmptyChapter, BlankChapter, DialogueChapter, ShortChapter, ParagraphsChapter,
     ListChapter, QuestionsChapter, MediumChapter, ImageChapter}

Init ==
    /\ EngineAtRest
    /\ FnAtRest
    /\ StoreAtRest

Next ==
    \/ Reset
    \/ BeginTransform(Chapters, TRUE)
    \/ BlankStep
    \/ ImageStep(TRUE)
    \/ ChunkStep(TRUE, FALSE, 0)
    \/ FinishTransform(TRUE)
    \/ RenderThrows

Spec == Init /\ [][Next]_vars

-----------------------------------------------------------------------------
(* SpecSel: the selector over runs of narrative chunks, every outcome of the
   pick; the caller keeps the numbers of the lines only *)

SelLines == 6

\* n lines of the same text
Lines(line, n) == Join(Rep(line, n), <<"\n">>)

\* chunks of the 50..99 band, whose menu has seven kinds
MediumLinesChapter == Lines(MediumChapter, SelLines \div 2)

\* chunks of the band below 50, whose menu has four kinds
ShortLinesChapter == Lines(ShortChapter, SelLines)

\* chunks of the band below 50, then two of the 50..99 band
MixedLinesChapter ==
    Lines(ShortChapter, SelLines - 2) \o <<"\n">> \o Lines(MediumChapter, 2)

SelChapters == {MediumLinesChapter, ShortLinesChapter, MixedLinesChapter}

\* the book store's use of the engine: transform right after reset
TransformAfterReset(chapters, keepContent) ==
    /\ sinceReset = 0
    /\ BeginTransform(chapters, keepContent)

NextSel ==
    \/ Reset
    \/ TransformAfterReset(SelChapters, FALSE)
    \/ ChunkStep(FALSE, FALSE, 0)
    \/ FinishTransform(FALSE)

SpecSel == Init /\ [][NextSel]_vars

-----------------------------------------------------------------------------
(* SpecLong: one chapter of many short narrative chunks; the selector's pick
   is its first candidate in the early calls and the first or the last of its
   candidates in the late ones *)

LongLines == 18

LongChapter == Lines(ShortChapter, LongLines)

\* the selector calls from which the pick is free
FreePicksFrom == 12

NextLong ==
    \/ TransformAfterReset({LongChapter}, FALSE)
    \/ ChunkStep(FALSE, TRUE, FreePicksFrom)
    \/ FinishTransform(FALSE)

SpecLong == Init /\ [][NextLong]_vars

-----------------------------------------------------------------------------
(* SpecStore: calls of BookStore.selectChapterForSession on the one engine
   that the module exports (codeifier.ts:1790).  A call runs up to its next
   await, where another call can take over; transform has no await in it. *)

StoreCalls == 2

Calls == 1..StoreCalls

Sessions == {"tab1", "tab2"}

StoreChapters == {EmptyChapter, DialogueChapter, ShortChapter}

\* the one line shown while, or instead of, the chapter's code:
\* <span class="text-vscode-comment">// ...</span>
MessageCode(message) ==
    <<[ln |-> 1, content |-> <<"<span>", "vscode-comment", message, "</span>">>]>>

LoadingCode == MessageCode("// Loading chapter...")

EmptyCode == MessageCode("// Chapter content is empty or could not be loaded")

FailedToProcessCode == MessageCode("// Failed to process chapter content")

FailedToLoadCode == MessageCode("// Failed to load chapter content")

NotCalled == [pc |-> "none", session |-> "none", text |-> <<>>, alone |-> TRUE]

InitStore ==
    /\ EngineAtRest
    /\ FnAtRest
    /\ store = [calls       |-> [c \in Calls |-> NotCalled],
                currentCode |-> [s \in Sessions |-> <<>>]]

\* the calls between their codeifier.reset() and their codeifier.transform(text)
BetweenResetAndTransform == {c \in Calls : store.calls[c].pc \in {"loading", "text"}}

\* no call is inside transform
NoneTransforming ==
    /\ pc = "idle"
    /\ \A c \in Calls : store.calls[c].pc # "transforming"

\* the calls as they are once call c has used the engine and moved to next
EngineUsedBy(c, next) ==
    [d \in Calls |->
        IF d = c THEN [store.calls[c] EXCEPT !.pc = next]
        ELSE IF d \in BetweenResetAndTransform THEN [store.calls[d] EXCEPT !.alone = FALSE]
        ELSE store.calls[d]]

\* from the entry to the first await tick(): the session shows the loading line
StoreSelect(c) ==
    /\ NoneTransforming
    /\ store.calls[c].pc = "none"
    /\ \E session \in Sessions, text \in StoreChapters :
         store' = [calls       |-> [store.calls EXCEPT ![c] =
                                       [pc |-> "tick", session |-> session,
                                        text |-> text, alone |-> TRUE]],
                   currentCode |-> [store.currentCode EXCEPT ![session] = LoadingCode]]
    /\ UNCHANGED <<engineVars, fnVars>>

\* from the first tick to the await of the book or of the chapter's text:
\* the loading line again, then codeifier.reset()
StoreReset(c) ==
    /\ NoneTransforming
    /\ store.calls[c].pc = "tick"
    /\ ResetEngine
    /\ store' = [calls       |-> EngineUsedBy(c, "loading"),
                 currentCode |-> [store.currentCode EXCEPT
                                     ![store.calls[c].session] = LoadingCode]]
    /\ UNCHANGED <<todo, pc, nCalls, fnVars>>

\* epubService.getChapterText has answered: with text the call awaits the
\* second tick, without text it shows the "empty" line and ends
StoreLoaded(c) ==
    /\ NoneTransforming
    /\ store.calls[c].pc = "loading"
    /\ store' = IF Trim(store.calls[c].text) # <<>>
                THEN [store EXCEPT !.calls[c].pc = "text"]
                ELSE [calls       |-> [store.calls EXCEPT ![c].pc = "done"],
                      currentCode |-> [store.currentCode EXCEPT
                                          ![store.calls[c].session] = EmptyCode]]
    /\ UNCHANGED <<engineVars, fnVars>>

\* loading the book or the chapter's text fails: the outer catch shows the
\* "failed to load" line
StoreLoadFails(c) ==
    /\ NoneTransforming
    /\ store.calls[c].pc = "loading"
    /\ store' = [calls       |-> [store.calls EXCEPT ![c].pc = "done"],
                 currentCode |-> [store.currentCode EXCEPT
                                     ![store.calls[c].session] = FailedToLoadCode]]
    /\ UNCHANGED <<engineVars, fnVars>>

\* the second tick is over: the call goes on to codeifier.transform(text),
\* which starts with no line of its own
StoreResume(c) ==
    /\ NoneTransforming
    /\ store.calls[c].pc = "text"
    /\ store' = [store EXCEPT !.calls = EngineUsedBy(c, "transforming")]
    /\ out' = NoOutput
    /\ UNCHANGED <<eng, todo, pc, lastText, sinceReset, nCalls, emitted, lastSelection,
                   resetFound, fnVars>>

\* the text of the call that is about to enter transform
TextsToTransform ==
    {store.calls[c].text : c \in {d \in Calls : store.calls[d].pc = "transforming"}}

StoreTransform ==
    /\ out.status = "none"
    /\ BeginTransform(TextsToTransform, FALSE)

\* const newCode = [...codeifier.transform(text)]; Object.assign(session, ...)
StoreAssign(c) ==
    /\ pc = "idle"
    /\ store.calls[c].pc = "transforming"
    /\ out.status = "returned"
    /\ store' = [calls       |-> [store.calls EXCEPT ![c].pc = "done"],
                 currentCode |-> [store.currentCode EXCEPT
                                     ![store.calls[c].session] = out.lines]]
    /\ UNCHANGED <<engineVars, fnVars>>

\* catch (transformError): the "failed to process" line
StoreTransformFailed(c) ==
    /\ pc = "idle"
    /\ store.calls[c].pc = "transforming"
    /\ out.status = "thrown"
    /\ store' = [calls       |-> [store.calls EXCEPT ![c].pc = "done"],
                 currentCode |-> [store.currentCode EXCEPT
                                     ![store.calls[c].session] = FailedToProcessCode]]
    /\ UNCHANGED <<engineVars, fnVars>>

NextStore ==
    \/ \E c \in Calls : StoreSelect(c)
    \/ \E c \in Calls : StoreReset(c)
    \/ \E c \in Calls : StoreLoaded(c)
    \/ \E c \in Calls : StoreLoadFails(c)
    \/ \E c \in Calls : StoreResume(c)
    \/ StoreTransform
    \/ ChunkStep(FALSE, FALSE, 0)
    \/ FinishTransform(FALSE)
    \/ RenderThrows
    \/ \E c \in Calls : StoreAssign(c)
    \/ \E c \in Calls : StoreTransformFailed(c)

SpecStore == InitStore /\ [][NextStore]_vars

-----------------------------------------------------------------------------
(* Chapter text of the book source: EpubService.extractTextContent *)

\* the image as the reader finds it: getAttribute("src") ||
\* getAttribute("data-src") || "", and the alt and title attributes ("" when
\* absent)
\* `\n[IMAGEM:${src ? `|${src}` : ""}|${title || alt}]`
ImagePlaceholder(img) ==
    LET alt   == IF img.alt # <<>> THEN img.alt ELSE <<"I", "m", "a", "g", "e", "m">>
        title == IF img.title # <<>> THEN img.title ELSE alt
    IN  <<"\n">> \o ImageMarker
            \o (IF img.src # <<>> THEN <<"|">> \o img.src ELSE <<>>)
            \o <<"|">> \o title \o <<"]">>

RECURSIVE CollapseBlanks(_)
\* .replace(/[ \t]+/g, " ")
CollapseBlanks(s) ==
    IF s = <<>> THEN <<>>
    ELSE IF s[1] \in {" ", "\t"}
    THEN IF Len(s) > 1 /\ s[2] \in {" ", "\t"} THEN CollapseBlanks(Tail(s))
         ELSE <<" ">> \o CollapseBlanks(Tail(s))
    ELSE <<s[1]>> \o CollapseBlanks(Tail(s))

\* the length of the run of white space at the head of s
RECURSIVE WhiteRun(_)
WhiteRun(s) == IF s = <<>> \/ s[1] \notin WS THEN 0 ELSE 1 + WhiteRun(Tail(s))

RECURSIVE CollapseBreaks(_)
\* .replace(/\n\s*\n/g, "\n\n")
CollapseBreaks(s) ==
    IF s = <<>> THEN <<>>
    ELSE LET run      == WhiteRun(s)
             newlines == {p \in 2..run : s[p] = "\n"}
         IN  IF s[1] = "\n" /\ newlines # {}
             THEN LET last == CHOOSE p \in newlines : \A q \in newlines : q <= p
                  IN  <<"\n", "\n">> \o CollapseBreaks(SubSeq(s, last + 1, Len(s)))
             ELSE <<s[1]>> \o CollapseBreaks(Tail(s))

\* the text of a body that holds a text, an image and a text
extractTextContent(before, img, after) ==
    Trim(CollapseBreaks(CollapseBlanks(before \o ImagePlaceholder(img) \o after)))

-----------------------------------------------------------------------------
(* SpecMenu: one chapter of short chunks that crosses every usage threshold
   of the selector and ends in a chunk of the 50..99 band; the caller keeps
   the numbers of the lines only *)

MenuChapter == Lines(ShortChapter, ExportAfter + 1) \o <<"\n">> \o MediumChapter

NextMenu ==
    \/ TransformAfterReset({MenuChapter}, FALSE)
    \/ ChunkStep(FALSE, TRUE, FreePicksFrom)
    \/ FinishTransform(FALSE)

SpecMenu == Init /\ [][NextMenu]_vars

-----------------------------------------------------------------------------
(* SpecReader: chapters as the book source writes them, two lines of dialogue
   around one image, transformed after reset; lines kept in full *)

ReaderImages ==
    {[src |-> s, alt |-> a, title |-> t] :
        s \in {<<>>, <<"a", ".", "p", "n", "g">>}, a \in {<<>>, <<"M", "a", "p", "a">>}, t \in {<<>>, <<"R", "i", "o">>}}

ReaderChapter(img) == extractTextContent(<<"-", " ", "O", "l", "a", ".", "\n">>, img, <<"\n", "-", " ", "A", "n", "a", ".">>)

ReaderChapters == {ReaderChapter(img) : img \in ReaderImages}

NextReader ==
    \/ Reset
    \/ TransformAfterReset(ReaderChapters, TRUE)
    \/ BlankStep
    \/ ImageStep(TRUE)
    \/ ChunkStep(TRUE, FALSE, 0)
    \/ FinishTransform(TRUE)

SpecReader == Init /\ [][NextReader]_vars

-----------------------------------------------------------------------------
-----------------------------------------------------------------------------
(* The book store with reading sessions: BookStore (book.svelte.ts) over the
   shared epubService and the storage service.  In the specifications of this
   part the variable store holds the store's fields, the stored books, the
   book the shared loader holds (with the operation that loaded it) and the
   asynchronous calls in flight; the code
   of a chapter is named by the text it was made from, the engine's part of
   selectChapterForSession being SpecStore's. *)

Null == "null"

Books == {"b1", "b2", "b3", "b4"}

\* the books stored without their data (bookData.epubData is empty)
NoEpubData == {"b3"}

\* the table of contents, the same hrefs in every book that has chapters
Toc == <<"c1", "c2">>

\* the books without a chapter
NoChapters == {"b4"}

\* epubService.getChapters() on the book the loader holds
getChapters(source) == IF source = Null \/ source \in NoChapters THEN <<>> ELSE Toc

\* the chapter whose text is empty
EmptyTexts == {[book |-> "b2", chapter |-> "c2"]}

MaxSessions == 3

\* the id of the n-th session created (session-<time>-<random> in the code)
SessionName(n) == <<"s1", "s2", "s3", "s4", "s5">>[n]

MaxSelects == 2

MaxScrolls == 1

\* scroll fractions in thousandths
Fractions == {300, 960}

\* Math.round(x) for x = n / d, n >= 0
RoundDiv(n, d) == (2 * n + d) \div (2 * d)

\* Object.assign(obj, over)
Assign(obj, over) == [f \in DOMAIN obj |-> IF f \in DOMAIN over THEN over[f] ELSE obj[f]]

Shown(kind, book, chapter) == [kind |-> kind, book |-> book, chapter |-> chapter]

NoCodeYet == Shown("none", Null, Null)

LoadingShown == Shown("loading", Null, Null)

\* const session: ReadingSession = { ... }
NewSession(id, bookId) ==
    [id |-> id, bookId |-> bookId, chapters |-> <<>>, currentChapter |-> Null,
     currentCode |-> NoCodeYet, chapterScrollProgress |-> 0, isLoading |-> FALSE]

\* a stored book that was never read
NewBookData == [currentChapterId |-> Null, chapterProgress |-> [c \in {} |-> 0]]

SessionIds(st) == {st.readingSessions[i].id : i \in 1..Len(st.readingSessions)}

\* readingSessions.findIndex((s) => s.id === sessionId), 1-based, 0 for -1
FindIndex(st, sessionId) ==
    IF sessionId \in SessionIds(st)
    THEN CHOOSE i \in 1..Len(st.readingSessions) : st.readingSessions[i].id = sessionId
    ELSE 0

\* the session object after Object.assign(session, over); a session that was
\* closed is out of the store and the assignment shows nowhere
AssignSession(st, sessionId, over) ==
    LET i == FindIndex(st, sessionId)
    IN  IF i = 0 THEN st
        ELSE [st EXCEPT !.readingSessions[i] = Assign(@, over)]

\* the index of the closed session itself
NewActiveIndexKept(index) == index

\* index === 0 ? 1 : index - 1, in 1-based indices
NewActiveIndex(index) == IF index = 1 THEN 2 ELSE index - 1

closeSession(st, sessionId) ==
    LET index == FindIndex(st, sessionId)
        n     == Len(st.readingSessions)
        rest  == [i \in 1..(n - 1) |->
                     IF i < index THEN st.readingSessions[i] ELSE st.readingSessions[i + 1]]
    IN  IF index = 0 THEN st
        ELSE [st EXCEPT
                 !.activeSessionId =
                     IF st.activeSessionId = sessionId
                     THEN IF n > 1 THEN st.readingSessions[NewActiveIndex(index)].id
                          ELSE Null
                     ELSE @,
                 !.leftSessionId  = IF @ = sessionId THEN Null ELSE @,
                 !.rightSessionId = IF @ = sessionId THEN Null ELSE @,
                 !.readingSessions = rest,
                 !.isSplitView = IF n - 1 < 2 THEN FALSE ELSE @]

toggleSplitView(st) ==
    IF Len(st.readingSessions) < 2 THEN st
    ELSE IF ~st.isSplitView
    THEN LET others == {i \in 1..Len(st.readingSessions) :
                           st.readingSessions[i].id # st.activeSessionId}
         IN  [st EXCEPT
                 !.isSplitView = TRUE,
                 !.leftSessionId = st.activeSessionId,
                 !.rightSessionId =
                     IF others = {} THEN Null
                     ELSE st.readingSessions[CHOOSE i \in others :
                                                 \A j \in others : i <= j].id]
    ELSE [st EXCEPT !.isSplitView = FALSE, !.leftSessionId = Null,
                    !.rightSessionId = Null]

RECURSIVE CloseAll(_, _)
\* sessionsToClose.forEach((session) => this.closeSession(session.id))
CloseAll(st, sessionsToClose) ==
    IF sessionsToClose = <<>> THEN st
    ELSE CloseAll(closeSession(st, Head(sessionsToClose).id), Tail(sessionsToClose))

\* storageService.deleteBook(bookId); this.availableBooks = getAllBooks(); ...
deleteBook(st, bookId) ==
    LET kept == DOMAIN st.stored \ {bookId}
        st1  == [st EXCEPT !.stored = [b \in kept |-> st.stored[b]],
                           !.availableBooks = [b \in kept |-> st.stored[b]]]
    IN  CloseAll(st1, SelectSeq(st.readingSessions, LAMBDA s : s.bookId = bookId))

switchToSession(st, sessionId) ==
    IF sessionId \in SessionIds(st) THEN [st EXCEPT !.activeSessionId = sessionId] ELSE st

\* storageService.updateChapterProgress(bookId, chapterId, progress)
updateChapterProgress(st, bookId, chapterId, progress) ==
    IF bookId \notin DOMAIN st.stored THEN st
    ELSE [st EXCEPT !.stored[bookId].chapterProgress =
                        [c \in DOMAIN @ \cup {chapterId} |->
                            IF c = chapterId THEN progress ELSE @[c]]]

\* storageService.updateCurrentChapter(bookId, chapterId)
updateCurrentChapter(st, bookId, chapterId) ==
    IF bookId \notin DOMAIN st.stored THEN st
    ELSE [st EXCEPT !.stored[bookId].currentChapterId = chapterId]

\* progressBook.chapterProgress[chapter.id] || 0, in thousandths
StoredProgress(st, bookId, chapterId) ==
    IF bookId \in DOMAIN st.stored /\ chapterId \in DOMAIN st.stored[bookId].chapterProgress
    THEN st.stored[bookId].chapterProgress[chapterId]
    ELSE 0

\* an asynchronous call at one of its awaits
Call(kind, sessionId, bookId, chapter, at, source) ==
    [kind |-> kind, sessionId |-> sessionId, bookId |-> bookId, chapter |-> chapter,
     pc |-> at, source |-> source]

\* selectChapterForSession from its entry to its first await tick()
selectChapterForSession(st, sessionId, chapter) ==
    LET i == FindIndex(st, sessionId)
    IN  IF i = 0 THEN st
        ELSE LET session == st.readingSessions[i]
                 st1 == IF session.currentChapter # Null /\ session.currentChapter # chapter
                        THEN updateChapterProgress(st, session.bookId,
                                                   session.currentChapter, 1000)
                        ELSE st
                 st2 == AssignSession(st1, sessionId,
                                      [currentChapter |-> chapter, isLoading |-> TRUE,
                                       currentCode |-> LoadingShown])
             IN  [st2 EXCEPT !.calls = @ \cup {Call("select", sessionId, session.bookId,
                                                    chapter, "tick", Null)}]

\* loadSessionBook from its entry to its await of epubService.loadBook, whose
\* first statement (this.book = ePub(data)) runs at once
loadSessionBook(st, sessionId) ==
    LET i == FindIndex(st, sessionId)
    IN  IF i = 0 THEN st
        ELSE LET bookId == st.readingSessions[i].bookId
             IN  IF bookId \notin DOMAIN st.availableBooks THEN st
                 ELSE IF bookId \in NoEpubData
                 THEN AssignSession(st, sessionId, [isLoading |-> FALSE])
                 ELSE [AssignSession(st, sessionId, [isLoading |-> TRUE]) EXCEPT
                          !.book = bookId,
                          !.loadedBy = "loadSessionBook",
                          !.calls = @ \cup {Call("load", sessionId, bookId,
                                                 st.availableBooks[bookId].currentChapterId,
                                                 "ready", Null)}]

createSessionFromBook(st, bookId) ==
    IF bookId \notin DOMAIN st.availableBooks THEN st
    ELSE LET sessionId == SessionName(st.created + 1)
         IN  loadSessionBook([st EXCEPT
                                 !.readingSessions = Append(@, NewSession(sessionId, bookId)),
                                 !.activeSessionId = sessionId,
                                 !.created = @ + 1],
                             sessionId)

\* selectChapter(chapter): the active session's selectChapterForSession
selectChapter(st, chapter) ==
    IF st.activeSessionId \in SessionIds(st)
    THEN selectChapterForSession(st, st.activeSessionId, chapter)
    ELSE st

\* updateScrollProgress(progress), progress in thousandths
updateScrollProgress(st, progress) ==
    LET i == FindIndex(st, st.activeSessionId)
    IN  IF i = 0 \/ st.readingSessions[i].currentChapter = Null THEN st
        ELSE updateChapterProgress(
                 AssignSession(st, st.activeSessionId,
                               [chapterScrollProgress |-> RoundDiv(progress * 100, 1000)]),
                 st.readingSessions[i].bookId, st.readingSessions[i].currentChapter,
                 IF progress >= 950 THEN 1000 ELSE progress)

\* the call is over
Ended(st, call) == [st EXCEPT !.calls = @ \ {call}]

\* the call goes on to its next await
Moved(st, call, at, source) ==
    [st EXCEPT !.calls = (@ \ {call}) \cup {[call EXCEPT !.pc = at, !.source = source]}]

\* loadSessionBook after loadBook: session.chapters is empty, and
\* getChapters() starts on the book the loader holds now
loadBookReady(st, call) == Moved(st, call, "chapters", st.book)

\* loadSessionBook after getChapters: the chapters, then the last read
\* chapter of the book as availableBooks had it, or the first chapter, or the
\* end of loading when there is no chapter
loadChapters(st, call) ==
    LET chapters == getChapters(call.source)
        st1      == Ended(AssignSession(st, call.sessionId, [chapters |-> chapters]), call)
    IN  IF chapters = <<>>
        THEN AssignSession(st1, call.sessionId, [isLoading |-> FALSE])
        ELSE selectChapterForSession(
                 st1, call.sessionId,
                 IF \E i \in 1..Len(chapters) : chapters[i] = call.chapter
                 THEN call.chapter ELSE chapters[1])

\* catch (e) of loadSessionBook
loadRejected(st, call) ==
    Ended(AssignSession(st, call.sessionId, [isLoading |-> FALSE]), call)

\* selectChapterForSession after its first tick: the loading line,
\* codeifier.reset(), updateCurrentChapter, then loadBook when the book's data
\* is at hand, else getChapterText at once
selectAfterTick(st, call) ==
    LET st1 == updateCurrentChapter(
                   AssignSession(st, call.sessionId, [currentCode |-> LoadingShown]),
                   call.bookId, call.chapter)
    IN  IF call.bookId \in DOMAIN st.availableBooks /\ call.bookId \notin NoEpubData
        THEN [Moved(st1, call, "loading", Null) EXCEPT
                 !.book = call.bookId, !.loadedBy = "selectChapterForSession"]
        ELSE Moved(st1, call, "reading", st.book)

\* after loadBook: getChapterText(chapter.href) starts on the book the
\* loader holds now
selectBookReady(st, call) == Moved(st, call, "reading", st.book)

\* is the text that getChapterText gives empty
NoText(source, chapter) ==
    source = Null \/ [book |-> source, chapter |-> chapter] \in EmptyTexts

\* after getChapterText: the second tick with text, the "empty" line without
selectTextRead(st, call) ==
    IF NoText(call.source, call.chapter)
    THEN Ended(AssignSession(st, call.sessionId,
                             [currentCode |-> Shown("empty", Null, Null),
                              chapterScrollProgress |-> 0, isLoading |-> FALSE]), call)
    ELSE Moved(st, call, "tick2", call.source)

\* an outer catch that leaves isLoading as it is
selectRejectedLoading(st, call) ==
    Ended(AssignSession(st, call.sessionId,
                        [currentCode |-> Shown("failed to load", Null, Null),
                         chapterScrollProgress |-> 0]), call)

\* the outer catch of selectChapterForSession
selectRejected(st, call) ==
    Ended(AssignSession(st, call.sessionId,
                        [currentCode |-> Shown("failed to load", Null, Null),
                         chapterScrollProgress |-> 0, isLoading |-> FALSE]), call)

\* after the second tick: the code of the text and the stored progress
\* (Math.round(progressBook.chapterProgress[chapter.id] || 0))
selectTransformed(st, call) ==
    Ended(AssignSession(st, call.sessionId,
                        [currentCode |-> Shown("code", call.source, call.chapter),
                         chapterScrollProgress |->
                             IF call.bookId \in DOMAIN st.stored
                             THEN RoundDiv(StoredProgress(st, call.bookId, call.chapter), 1000)
                             ELSE 0,
                         isLoading |-> FALSE]), call)

\* catch (transformError)
selectTransformThrew(st, call) ==
    Ended(AssignSession(st, call.sessionId,
                        [currentCode |-> Shown("failed to process", Null, Null),
                         chapterScrollProgress |-> 0, isLoading |-> FALSE]), call)

(* The store's operations as steps.  The user's operations run to their first
   await in one step; every await of a call in flight is a step of its own. *)

InitSessions ==
    /\ EngineAtRest
    /\ FnAtRest
    /\ store = [readingSessions |-> <<>>, activeSessionId |-> Null,
                isSplitView |-> FALSE, leftSessionId |-> Null, rightSessionId |-> Null,
                availableBooks |-> [b \in Books |-> NewBookData],
                stored |-> [b \in Books |-> NewBookData],
                book |-> Null, loadedBy |-> Null, calls |-> {}, created |-> 0, selects |-> 0,
                scrolls |-> 0]

StoreBecomes(st) ==
    /\ store' = st
    /\ UNCHANGED <<engineVars, fnVars>>

CreateSessionFromBook(books, maxSessions) ==
    \E bookId \in books :
        /\ store.created < maxSessions
        /\ StoreBecomes(createSessionFromBook(store, bookId))

SwitchToSession ==
    \E sessionId \in {SessionName(n) : n \in 1..MaxSessions} :
        /\ store.readingSessions # <<>>
        /\ StoreBecomes(switchToSession(store, sessionId))

CloseSession ==
    \E sessionId \in SessionIds(store) : StoreBecomes(closeSession(store, sessionId))

ToggleSplitView ==
    /\ store.readingSessions # <<>>
    /\ StoreBecomes(toggleSplitView(store))

DeleteBook(books) ==
    \E bookId \in books \cap DOMAIN store.stored :
        StoreBecomes(deleteBook(store, bookId))

\* the reader picks one of the chapters listed for the active session
SelectChapter(maxSelects) ==
    /\ store.selects < maxSelects
    /\ store.activeSessionId \in SessionIds(store)
    /\ LET chapters == store.readingSessions[FindIndex(store, store.activeSessionId)].chapters
       IN  \E i \in 1..Len(chapters) :
               StoreBecomes([selectChapter(store, chapters[i]) EXCEPT !.selects = @ + 1])

UpdateScrollProgress ==
    \E progress \in Fractions :
        /\ store.scrolls < MaxScrolls
        /\ store.activeSessionId \in SessionIds(store)
        /\ StoreBecomes([updateScrollProgress(store, progress) EXCEPT !.scrolls = @ + 1])

LoadBookReady(call) ==
    /\ call.kind = "load" /\ call.pc = "ready"
    /\ StoreBecomes(loadBookReady(store, call))

LoadChapters(call) ==
    /\ call.kind = "load" /\ call.pc = "chapters"
    /\ StoreBecomes(loadChapters(store, call))

LoadRejected(call) ==
    /\ call.kind = "load"
    /\ StoreBecomes(loadRejected(store, call))

SelectAfterTick(call) ==
    /\ call.kind = "select" /\ call.pc = "tick"
    /\ StoreBecomes(selectAfterTick(store, call))

SelectBookReady(call) ==
    /\ call.kind = "select" /\ call.pc = "loading"
    /\ StoreBecomes(selectBookReady(store, call))

SelectTextRead(call) ==
    /\ call.kind = "select" /\ call.pc = "reading"
    /\ StoreBecomes(selectTextRead(store, call))

SelectRejected(call) ==
    /\ call.kind = "select" /\ call.pc \in {"loading", "reading"}
    /\ StoreBecomes(selectRejected(store, call))

SelectTransformed(call) ==
    /\ call.kind = "select" /\ call.pc = "tick2"
    /\ StoreBecomes(selectTransformed(store, call))

SelectTransformThrew(call) ==
    /\ call.kind = "select" /\ call.pc = "tick2"
    /\ StoreBecomes(selectTransformThrew(store, call))

\* the next step of a call in flight: its await settles
CallStep(call) ==
    \/ LoadBookReady(call)
    \/ LoadChapters(call)
    \/ LoadRejected(call)
    \/ SelectAfterTick(call)
    \/ SelectBookReady(call)
    \/ SelectTextRead(call)
    \/ SelectRejected(call)
    \/ SelectTransformed(call)
    \/ SelectTransformThrew(call)

\* the steps of the calls in flight
CallSteps ==
    \/ \E call \in store.calls : LoadBookReady(call)
    \/ \E call \in store.calls : LoadChapters(call)
    \/ \E call \in store.calls : LoadRejected(call)
    \/ \E call \in store.calls : SelectAfterTick(call)
    \/ \E call \in store.calls : SelectBookReady(call)
    \/ \E call \in store.calls : SelectTextRead(call)
    \/ \E call \in store.calls : SelectRejected(call)
    \/ \E call \in store.calls : SelectTransformed(call)
    \/ \E call \in store.calls : SelectTransformThrew(call)

\* the steps of the calls of one session
SessionSteps(sessionId) ==
    \E call \in store.calls : call.sessionId = sessionId /\ CallStep(call)

(* SpecTabs: up to three sessions opened, switched, split, closed and their
   books deleted while their loads run *)

\* the books opened: one with its data and one without
TabBooks == {"b1", "b3"}

NextTabs ==
    \/ CreateSessionFromBook(TabBooks, MaxSessions)
    \/ SwitchToSession
    \/ CloseSession
    \/ ToggleSplitView
    \/ DeleteBook(TabBooks)
    \/ CallSteps

SpecTabs == InitSessions /\ [][NextTabs]_vars

(* SpecChapters: two sessions of two books, their chapters selected and
   scrolled while earlier calls are in flight *)

ChapterBooks == {"b1", "b2"}

ChapterSessions == 2

NextChapters ==
    \/ CreateSessionFromBook(ChapterBooks, ChapterSessions)
    \/ SelectChapter(MaxSelects)
    \/ UpdateScrollProgress
    \/ CallSteps

SpecChapters == InitSessions /\ [][NextChapters]_vars

(* SpecLoading: two sessions of books with and without data, chapters and
   text, and one chapter picked by the reader; every await of a call in flight settles in the end, with its value or
   with an error *)

\* a book with a chapter of text and an empty chapter, a book without data
\* and a book without chapters
LoadingBooks == {"b2", "b3", "b4"}

LoadingSessions == 2

LoadingSelects == 1

NextLoading ==
    \/ CreateSessionFromBook(LoadingBooks, LoadingSessions)
    \/ SelectChapter(LoadingSelects)
    \/ CallSteps

SpecLoading ==
    /\ InitSessions
    /\ [][NextLoading]_vars
    /\ \A n \in 1..LoadingSessions : WF_vars(SessionSteps(SessionName(n)))

(* SpecImport: one chapter of short narrative chunks, just long enough for
   the selector to offer the import kind; the caller keeps the lines *)

\* the selector call from which import is on the menu
ImportOfferedFrom == ImportAfter + 1

ImportChapter == Lines(ShortChapter, ImportOfferedFrom + 1)

NextImport ==
    \/ Reset
    \/ TransformAfterReset({ImportChapter}, TRUE)
    \/ ChunkStep(TRUE, TRUE, ImportOfferedFrom)
    \/ FinishTransform(TRUE)

SpecImport == Init /\ [][NextImport]_vars

-----------------------------------------------------------------------------
(* SpecClass: the engine fed chapters of one chunk each, of every mix of the
   three content tests; lines kept in full *)

\* dialogue, list and question at once
DashQuestionChapter == <<"-", " ", "Q", "u", "e", "m", " ", "r", "i", "?">>

\* list and question
NumberedQuestionChapter == <<"1", ".", " ", "Q", "u", "e", "m", " ", "r", "i", "?">>

\* question only
QuestionChapter == <<"Q", "u", "e", "m", " ", "r", "i", "?">>

\* quotation marks after the first character
QuotedLaterChapter == <<"A", "n", "a", " ", "d", "i", "z", " ", "\"", "o", "l", "a", "\"", " ", "a", " ", "t", "i", "a", ".">>

\* the marker as the specification writes it
ImageMarkerChapter == <<"[", "I", "M", "A", "G", "E", ":", "|", "a", ".", "p", "n", "g", "|", "M", "a", "p", "a", "]">>

\* two lines of dialogue, one blank line apart
BlankBetweenChapter == <<"-", " ", "O", "l", "a", ".", "\n", "\n", "-", " ", "A", "n", "a", ".">>

\* a list by its conjunctions, of three items
ConjunctionChapter == <<"s", "o", "l", ",", " ", "e", " ", "l", "u", "a", ";", " ", "o", "u", " ", "m", "a", "r">>

ClassChapters ==
    {DashQuestionChapter, NumberedQuestionChapter, QuestionChapter, QuotedLaterChapter,
     ImageMarkerChapter, BlankBetweenChapter, DialogueChapter, ListChapter, ShortChapter,
     ImageChapter,
     ConjunctionChapter}

NextClass ==
    \/ Reset
    \/ BeginTransform(ClassChapters, TRUE)
    \/ BlankStep
    \/ ImageStep(TRUE)
    \/ ChunkStep(TRUE, FALSE, 0)
    \/ FinishTransform(TRUE)

SpecClass == Init /\ [][NextClass]_vars

-----------------------------------------------------------------------------
(* SpecSeg: the segmenter applied to one paragraph *)

InitSeg ==
    /\ EngineAtRest
    /\ fnArg \in SegInputs
    /\ fnRes = <<>>
    /\ fnDone = FALSE
    /\ StoreAtRest

Segment ==
    /\ ~fnDone
    /\ fnDone' = TRUE
    /\ fnRes' = splitParagraphIntoCodeBlocks(fnArg)
    /\ UNCHANGED <<engineVars, fnArg, store>>

NextSeg == Segment

SpecSeg == InitSeg /\ [][NextSeg]_vars

(* SpecName: the three name generators applied to one text *)

MaxNameWords == 3

\* a capitalised word, a verb, a noun, a word of no class and a word too short
\* to be a keyword
NameWords == {<<"A", "n", "a">>, <<"v", "e", "r">>, <<"m", "a", "r">>, <<"q", "u", "e">>, <<"d", "e">>}

NameTexts == {<<>>} \cup {Join(ws, <<" ">>) : ws \in SeqsUpTo(NameWords, MaxNameWords)}

InitName ==
    /\ EngineAtRest
    /\ fnArg \in NameTexts
    /\ fnRes = <<>>
    /\ fnDone = FALSE
    /\ StoreAtRest

GenerateNames ==
    /\ ~fnDone
    /\ fnDone' = TRUE
    /\ \E draw \in NameDraws :
         fnRes' = [variableName |-> generateContextualVarName(fnArg, <<>>),
                   functionName |-> generateContextualFuncName(fnArg, <<>>, draw),
                   typeName     |-> generateContextualTypeName(fnArg, <<>>)]
    /\ UNCHANGED <<engineVars, fnArg, store>>

NextName == GenerateNames

SpecName == InitName /\ [][NextName]_vars

(* SpecWrap: the line wrapper applied to one text and width *)

InitWrap ==
    /\ EngineAtRest
    /\ fnArg \in WrapInputs
    /\ fnRes = <<>>
    /\ fnDone = FALSE
    /\ StoreAtRest

Wrap ==
    /\ ~fnDone
    /\ fnDone' = TRUE
    /\ fnRes' = breakLines(fnArg.text, fnArg.maxLength)
    /\ UNCHANGED <<engineVars, fnArg, store>>

NextWrap == Wrap

SpecWrap == InitWrap /\ [][NextWrap]_vars

-----------------------------------------------------------------------------
(* What the claims speak of *)

\* the contents of the lines, one after the other
AllContent(lines) == Concat([i \in 1..Len(lines) |-> lines[i].content])

RECURSIVE TextParts(_, _)
\* the parts of the split that are text, not image descriptions; i 0-based
TextParts(parts, i) ==
    IF i >= Len(parts) THEN <<>>
    ELSE (IF i % 2 = 0 THEN <<parts[i + 1]>> ELSE <<>>) \o TextParts(parts, i + 1)

\* the words of the chapter text outside its image markers
ChapterWords(text) ==
    LET texts == TextParts(SplitImages(text), 0)
    IN  UNION {{SplitWords(texts[i])[j] : j \in 1..Len(SplitWords(texts[i]))}
                  : i \in 1..Len(texts)}

\* the call has returned its lines to the caller
Returned == pc = "idle" /\ out.status = "returned"

-----------------------------------------------------------------------------
(* C1 -- Line numbering: the lines of a transform call that is the first    *)
(* since the engine was reset are numbered 1, 2, 3, ... in output order,    *)
(* without gap or repeat, whatever lines the call emits.                    *)
C1_LineNumbering ==
    (sinceReset = 1 /\ out.status \in {"running", "returned"}) =>
        \A i \in 1..Len(out.lines) : out.lines[i].ln = i

\* a call after a reset() of a used engine has returned more than ten lines,
\* blank lines and the export scaffolding among them
C1_Witness ==
    /\ Returned
    /\ sinceReset = 1
    /\ resetFound = "used"
    /\ Len(out.lines) > 10
    /\ \E i \in 1..Len(out.lines) : out.lines[i].content = BlankLine
    /\ \E i \in 1..Len(out.lines) : IsExportLine(out.lines[i])

-----------------------------------------------------------------------------
(* C2 -- Content preservation: every word of the chapter text appears, in   *)
(* escaped form, in the concatenated contents of the lines that transform   *)
(* returns for it.                                                          *)
C2_ContentPreservation ==
    Returned =>
        \A word \in ChapterWords(lastText) :
            Includes(AllContent(out.lines), escapeString(word))

-----------------------------------------------------------------------------
(* C6 -- Empty input: for a chapter text that is empty or only white space  *)
(* a transform call right after reset returns no line, whatever the draws.  *)
C6_EmptyInput ==
    (Returned /\ sinceReset = 1 /\ Trim(lastText) = <<>>) => out.lines = <<>>

-----------------------------------------------------------------------------
(* C7 -- Failure containment: an exception raised while a chunk or an image *)
(* is rendered does not leave transform.                                    *)
C7_FailureContainment == out.status # "thrown"

-----------------------------------------------------------------------------
(* C8 -- Idempotent reset: after reset(), whatever calls came before, the   *)
(* engine holds the state of a freshly constructed one, so that the same    *)
(* text and draws give the same line numbers and the same selections.       *)
C8_IdempotentReset ==
    (pc = "idle" /\ sinceReset = 0) => eng = NewCodeifier

\* reset() has been applied to an engine that earlier calls had changed
C8_Witness ==
    /\ pc = "idle"
    /\ sinceReset = 0
    /\ resetFound = "used"
    /\ eng = NewCodeifier

-----------------------------------------------------------------------------
(* C3 -- Every chapter transformation of the book store starts from a reset *)
(* engine: between a call's codeifier.reset() and its                       *)
(* codeifier.transform(text) no other call resets or transforms, so the     *)
(* code stored in a session is numbered 1, 2, 3, ... from its first line.   *)
C3_TransformFromReset ==
    /\ \A c \in Calls :
           store.calls[c].pc = "transforming" => store.calls[c].alone
    /\ \A s \in Sessions :
           \A i \in 1..Len(store.currentCode[s]) : store.currentCode[s][i].ln = i

\* two sessions hold the lines of their chapters, and the numbers of the one
\* go on from the numbers of the other
C3_StoredCodeMisnumbered ==
    \E s, t \in Sessions :
        /\ store.currentCode[s] # <<>> /\ store.currentCode[t] # <<>>
        /\ \A i \in 1..Len(store.currentCode[s]) : store.currentCode[s][i].content = <<>>
        /\ \A i \in 1..Len(store.currentCode[t]) : store.currentCode[t][i].content = <<>>
        /\ store.currentCode[s][1].ln = 1
        /\ store.currentCode[t][1].ln = Len(store.currentCode[s]) + 1

-----------------------------------------------------------------------------
(* C4 -- Anti-repetition: when the selector is called for a chunk whose     *)
(* menu has at least 6 distinct kinds, the kind it returns is none of the   *)
(* 5 selections recorded before it; so two selector calls in a row for such *)
(* chunks never return the same kind.                                       *)
C4_AntiRepetition ==
    (lastSelection.selected # "none" /\ Cardinality(lastSelection.menu) >= 6) =>
        LET recorded == eng.recentStructures
            last     == Len(recorded)
        IN  /\ recorded[last] = lastSelection.selected
            /\ \A i \in 1..(last - 1) :
                   i >= last - 5 => recorded[i] # lastSelection.selected

\* a selection from a menu of seven kinds with five selections before it,
\* some of them kinds of that menu
C4_Witness ==
    /\ lastSelection.selected # "none"
    /\ Cardinality(lastSelection.menu) >= 6
    /\ Len(eng.recentStructures) >= 6
    /\ \E i \in 1..5 : eng.recentStructures[i] \in lastSelection.menu

-----------------------------------------------------------------------------
(* C5 -- One-shot special kinds: between one reset and the next, at most    *)
(* one import-statement line and at most one export-statement line are      *)
(* emitted, whether by the scaffolding at the start and the end of          *)
(* transform or by a selection of the selector.                             *)
C5_SpecialKindsOnce ==
    sinceReset <= 1 => (emitted.imports <= 1 /\ emitted.exports <= 1)

-----------------------------------------------------------------------------
(* C11 -- Classification order: the tests are made in the order dialogue,   *)
(* list, question and the first that holds wins.  A chunk that passes the   *)
(* dialogue test is rendered as a string literal even if it passes the list *)
(* or the question test, and a chunk that passes the list and the question  *)
(* test but not the dialogue test is rendered as an array literal.          *)

\* the chapter was one chunk and some line of the call has the content of run
RenderedAs(run) ==
    \E i \in 1..Len(out.lines) : out.lines[i].content = run.lines[1].content

C11_ClassificationOrder ==
    (Returned /\ Len(WorkItems(lastText)) = 1 /\ lastSelection.textType # "none") =>
        LET chunk == Trim(lastText)
        IN  /\ isDialogue(chunk) =>
                /\ lastSelection.textType = "dialogue"
                /\ RenderedAs(toStringLiteral(NewCodeifier, chunk))
            /\ (~isDialogue(chunk) /\ isListItem(chunk) /\ isQuestion(chunk)) =>
                /\ lastSelection.textType = "list"
                /\ RenderedAs(toArrayLiteral(NewCodeifier, chunk))

\* a chunk that passes all three tests was rendered as a string literal
C11_Witness ==
    /\ Returned
    /\ lastText = DashQuestionChapter
    /\ isDialogue(lastText) /\ isListItem(lastText) /\ isQuestion(lastText)
    /\ lastSelection.textType = "dialogue"
    /\ RenderedAs(toStringLiteral(NewCodeifier, lastText))

\* a chunk that passes the list and the question test only was rendered as
\* an array literal
C11_ListBeforeQuestion ==
    /\ Returned
    /\ lastText = NumberedQuestionChapter
    /\ ~isDialogue(lastText) /\ isListItem(lastText) /\ isQuestion(lastText)
    /\ lastSelection.textType = "list"

-----------------------------------------------------------------------------
(* C12 -- Image markers: for an image marker [IMAGE:|src|alt] in the        *)
(* chapter text, transform emits three lines in a row: a comment line with  *)
(* the alt text, an image line that refers to src, and a blank line; the    *)
(* marker's text is not given to the classifier or to a renderer.           *)

\* the text between the first claimed marker's opening and its "]"
ClaimedMarkerBody(text) ==
    LET p    == IndexOf(text, ClaimedImageMarker)
        rest == SubstringFrom(text, p + Len(ClaimedImageMarker))
    IN  Substring(rest, 0, IndexOf(rest, <<"]">>))

HasClaimedMarker(text) ==
    /\ IndexOf(text, ClaimedImageMarker) >= 0
    /\ IndexOf(SubstringFrom(text, IndexOf(text, ClaimedImageMarker)), <<"]">>) >= 0

\* the lines from the i-th on are the two of the image and a blank one
ImageLinesAt(i, image) ==
    /\ i + 2 <= Len(out.lines)
    /\ out.lines[i].content = image.lines[1].content
    /\ out.lines[i + 1].content = image.lines[2].content
    /\ out.lines[i + 2].content = BlankLine

ReaderMarkerBody(text) ==
    LET opening == <<"[", "I", "M", "A", "G", "E", "M", ":">>
        rest    == SubstringFrom(text, IndexOf(text, opening) + Len(opening))
    IN  Substring(rest, 0, IndexOf(rest, <<"]">>))

HasReaderMarker(text) ==
    LET opening == <<"[", "I", "M", "A", "G", "E", "M", ":">>
    IN  /\ IndexOf(text, opening) >= 0
        /\ Len(SplitOn(ReaderMarkerBody(text), "|")) = 3
        /\ SplitOn(ReaderMarkerBody(text), "|")[2] # <<>>
        /\ SplitOn(ReaderMarkerBody(text), "|")[3] # <<>>

\* a comment line with alt, a line with an img element of source src, a blank line
PictureLinesAt(i, src, alt) ==
    /\ i + 2 <= Len(out.lines)
    /\ OccursAt(out.lines[i].content, <<"<span>", "comment">>, 0)
    /\ Includes(out.lines[i].content, alt)
    /\ Includes(out.lines[i + 1].content,
                <<"<div class=\"epub-image-container\"><img src=\"">> \o src)
    /\ out.lines[i + 2].content = BlankLine

-----------------------------------------------------------------------------
(* C13 -- Blank-line collapsing: within a run of text, however many blank   *)
(* lines lie between two lines of text, at most one blank line is emitted   *)
(* between their blocks: no two blank lines follow one another.             *)
C13_BlankLinesCollapsed ==
    (Returned /\ ~Includes(lastText, ImageMarker)) =>
        \A i \in 1..(Len(out.lines) - 1) :
            ~(out.lines[i].content = BlankLine /\ out.lines[i + 1].content = BlankLine)

-----------------------------------------------------------------------------
(* C14 -- Short narrative: for a chapter that is one narrative chunk of     *)
(* fewer than 50 characters, transform after reset returns exactly one      *)
(* line, and that line holds the escaped chunk text, whatever is drawn.     *)
C14_ShortNarrativeOneLine ==
    (/\ Returned /\ sinceReset = 1
     /\ Len(WorkItems(lastText)) = 1
     /\ IsNarrative(lastText) /\ Len(Trim(lastText)) < 50) =>
        /\ Len(out.lines) = 1
        /\ Includes(out.lines[1].content, escapeString(Trim(lastText)))

\* The same with the import line that transform may put first: the call
\* returns the chunk's one line, after at most one import line.
C14_ShortNarrativeAfterImport ==
    (/\ Returned /\ sinceReset = 1
     /\ Len(WorkItems(lastText)) = 1
     /\ IsNarrative(lastText) /\ Len(Trim(lastText)) < 50) =>
        /\ Len(out.lines) \in {1, 2}
        /\ Len(out.lines) = 2 => IsImportLine(out.lines[1])
        /\ ~IsImportLine(out.lines[Len(out.lines)])
        /\ Includes(out.lines[Len(out.lines)].content, escapeString(Trim(lastText)))

\* a short narrative chapter returned as an import line and an arrow function
C14_Witness ==
    /\ Returned /\ sinceReset = 1
    /\ lastText = ShortChapter
    /\ IsNarrative(lastText)
    /\ lastSelection.selected = "arrow-function"
    /\ Len(out.lines) = 2

\* C15: an import-statement line is only ever the first line of the chapter:
\* every import line among the lines produced since the last reset is the
\* first of them and has line number 1.
C15_ImportOnlyFirst ==
    sinceReset <= 1 =>
        \A i \in 1..Len(out.lines) :
            IsImportLine(out.lines[i]) => (i = 1 /\ out.lines[i].ln = 1)

\* C16: a chunk is classified as dialogue exactly when it starts with a
\* quotation mark or a hyphen (the em-dash is outside the texts of the model);
\* a quotation mark or apostrophe later in the chunk does not make it dialogue.
C16_DialogueIffAtStart ==
    (Returned /\ Len(WorkItems(lastText)) = 1 /\ lastSelection.textType # "none") =>
        LET chunk == Trim(lastText)
        IN  lastSelection.textType = "dialogue" <=> chunk[1] \in {"\"", "-"}

C17_UnfilteredMenuUsed ==
    /\ lastSelection.selected # "none"
    /\ eng.structureCount > 6
    /\ InSeq(lastSelection.selected, lastSelection.recent)

\* the characters of s that are not whitespace, in order
NonWhitespace(s) == SelectSeq(s, LAMBDA c : c \notin WS)

\* C18: for a paragraph longer than 300 characters the chunks returned by the
\* segmenter, concatenated in order, hold every non-whitespace character of the
\* paragraph in its original order; trailing text without a sentence
\* terminator is part of the last chunk.
C18_SegmenterPartition ==
    (fnDone /\ Len(fnArg) > ShortParagraph) =>
        NonWhitespace(Concat(fnRes)) = NonWhitespace(fnArg)

\* the number of string items on a line
StringItems(content) ==
    Cardinality({p \in 0..(Len(content) - 1) : OccursAt(content, <<"<span>", "string">>, p)})

\* C19: a list-classified chunk is rendered as exactly one line of at most 3
\* array items; without split points (no conjunction, fewer than two comma
\* separators after a marker) the chunk is the single item; and every item of
\* the chunk is on the line, cap or no cap.
C19_ListRenderer ==
    (/\ Returned /\ sinceReset = 1
     /\ Len(WorkItems(lastText)) = 1
     /\ lastSelection.textType = "list") =>
        LET chunk   == Trim(lastText)
            cleaned == StripListMarker(chunk)
            lines   == SelectSeq(out.lines, LAMBDA l : ~IsImportLine(l))
        IN  /\ Len(lines) = 1
            /\ StringItems(lines[1].content) <= 3
            /\ (/\ \A p \in 0..(Len(chunk) - 1) : ConjunctionEnd(chunk, p) = -1
                /\ CommaCount(cleaned) < 2) =>
                   Includes(lines[1].content, Quoted(escapeString(Trim(cleaned))))
            /\ \A i \in 1..Len(ListItems(chunk)) :
                   Includes(lines[1].content,
                            Quoted(escapeString(Trim(ListItems(chunk)[i]))))

C20_FallbackReached ==
    /\ fnDone
    /\ fnArg = <<"d", "e", " ", "d", "e">>
    /\ fnRes.variableName = <<"c", "o", "n", "t", "e", "n", "t">>
    /\ fnRes.typeName = <<"C", "o", "n", "t", "e", "n", "t">>

\* the item transform has just handled is a chunk: its block is the end of
\* the lines so far
JustRenderedBlock ==
    /\ pc = "running"
    /\ LET done == Len(WorkItems(lastText)) - Len(todo)
       IN  done >= 1 /\ WorkItems(lastText)[done].type = "chunk"

\* C21: every rendered block is immediately followed by a blank line: the
\* first line transform adds after the lines of a chunk is blank, and it adds
\* one also after the last chunk of the chapter.
C21_BlockSeparation ==
    [][(JustRenderedBlock /\ out'.status # "thrown") =>
           /\ Len(out'.lines) > Len(out.lines)
           /\ out'.lines[Len(out.lines) + 1].content = BlankLine]_vars

\* the index of the last sentence-ending punctuation of head that is followed
\* by white space, or -1
LastSentenceEnd(head) ==
    LET ends == {p \in 0..(Len(head) - 2) :
                    head[p + 1] \in {".", "!", "?"} /\ head[p + 2] \in WS}
    IN  IF ends = {} THEN -1 ELSE CHOOSE p \in ends : \A q \in ends : q <= p

\* the break point by the stated priority: sentence end, comma, space, width
BreakPointByPriority(remaining, maxLength) ==
    LET head        == Substring(remaining, 0, maxLength)
        sentenceEnd == LastSentenceEnd(head)
        comma       == LastIndexOf(head, <<",", " ">>)
        space       == LastIndexOf(head, <<" ">>)
    IN  IF 10 * sentenceEnd > 6 * maxLength THEN sentenceEnd + 2
        ELSE IF 10 * comma > 7 * maxLength THEN comma + 1
        ELSE IF 10 * space > 8 * maxLength THEN space
        ELSE maxLength

\* C22: when the text is longer than the width, the first element ends at the
\* last sentence end followed by a space beyond its threshold, else at the
\* last comma followed by a space beyond its threshold, else at the last
\* space beyond its threshold, else at the width.
C22_BreakPriority ==
    (fnDone /\ Len(fnArg.text) > fnArg.maxLength) =>
        fnRes[1] = Trim(Substring(fnArg.text, 0,
                                  BreakPointByPriority(fnArg.text, fnArg.maxLength)))

\* the text the reader shows for an image: its title, else its alt, else "Imagem"
ShownText(img) ==
    IF img.title # <<>> THEN img.title
    ELSE IF img.alt # <<>> THEN img.alt ELSE <<"I", "m", "a", "g", "e", "m">>

\* C23: for an image without source, the chapter text the book source writes
\* makes transform emit the comment line with the image's text and then the
\* placeholder declaration holding that text, and no image-embedding line.
C23_SourcelessImage ==
    \A img \in ReaderImages :
        (Returned /\ sinceReset = 1 /\ img.src = <<>> /\ lastText = ReaderChapter(img)) =>
            /\ \E i \in 1..(Len(out.lines) - 1) :
                   /\ OccursAt(out.lines[i].content, <<"<span>", "comment">>, 0)
                   /\ Includes(out.lines[i].content, ShownText(img))
                   /\ Includes(out.lines[i + 1].content, Variable(<<"imagePlaceholder">>))
                   /\ Includes(out.lines[i + 1].content,
                               Quoted(escapeString(ShownText(img))))
            /\ \A i \in 1..Len(out.lines) :
                   ~Includes(out.lines[i].content,
                             <<"<div class=\"epub-image-container\"><img src=\"">>)

-----------------------------------------------------------------------------
(* C9 -- Segmenter reconstruction: for a paragraph longer than 300          *)
(* characters the chunks returned by the segmenter hold at least nine       *)
(* tenths of the paragraph's characters, and when the chunks built from the *)
(* sentences hold less, the segmenter returns the whole paragraph as its    *)
(* only chunk.                                                              *)
C9_SegmenterReconstruction ==
    (fnDone /\ Len(fnArg) > ShortParagraph) =>
        /\ 10 * SumLen(fnRes) >= 9 * Len(fnArg)
        /\ (10 * SumLen(SentenceChunks(fnArg)) < 9 * Len(fnArg)) => fnRes = <<fnArg>>

\* a long paragraph whose sentence chunks lose more than a tenth: the
\* fallback to the whole paragraph has fired
C9_Witness ==
    /\ fnDone
    /\ Len(fnArg) > ShortParagraph
    /\ 10 * SumLen(SentenceChunks(fnArg)) < 9 * Len(fnArg)
    /\ fnRes = <<fnArg>>

\* a long paragraph that was split into several chunks
C9_SplitReached ==
    /\ fnDone
    /\ Len(fnArg) > ShortParagraph
    /\ Len(fnRes) >= 2

\* C26: whenever the split view is on there are at least two reading
\* sessions, and the left and the right session ids are both set, differ and
\* name sessions that are open.
C26_SplitViewConsistency ==
    (store # <<>> /\ store.isSplitView) =>
        /\ Len(store.readingSessions) >= 2
        /\ store.leftSessionId # Null
        /\ store.rightSessionId # Null
        /\ store.leftSessionId # store.rightSessionId
        /\ {store.leftSessionId, store.rightSessionId} \subseteq SessionIds(store)

\* closing the active session activates the session before it, or the one
\* after it when it was the first; switching to an id that names no session
\* changes nothing
ClosingAndSwitching ==
    /\ \A sessionId \in {SessionName(n) : n \in 1..MaxSessions} \ SessionIds(store) :
           switchToSession(store, sessionId) = store
    /\ \A i \in 1..Len(store.readingSessions) :
           (store.readingSessions[i].id = store.activeSessionId
                /\ Len(store.readingSessions) > 1) =>
               closeSession(store, store.activeSessionId).activeSessionId
                   = store.readingSessions[IF i = 1 THEN 2 ELSE i - 1].id

\* C27: the active session id is null exactly when there is no reading
\* session, and otherwise it is the id of a session in readingSessions;
\* closing the active session activates a neighbour of it that stays, and
\* switching to an unknown id changes nothing.
C27_ActiveSessionValid ==
    store # <<>> =>
        /\ (store.activeSessionId = Null) <=> (store.readingSessions = <<>>)
        /\ store.activeSessionId # Null => store.activeSessionId \in SessionIds(store)
        /\ ClosingAndSwitching

\* three sessions were opened, the last of them was closed and two are left,
\* one of them active
C27_Witness ==
    /\ store # <<>>
    /\ store.created = 3
    /\ Len(store.readingSessions) = 2
    /\ store.activeSessionId \in SessionIds(store)
    /\ SessionName(3) \notin SessionIds(store)

\* C24: the chapter text of a selectChapterForSession call is read from the
\* book of the call's session: when the call's getChapterText starts after
\* its loadBook, the shared loader holds no book that another
\* selectChapterForSession call loaded in between.
C24_OwnBookRead ==
    [][\A call \in store.calls :
           (/\ call.kind = "select" /\ call.pc = "loading"
            /\ store' = selectBookReady(store, call)
            /\ store.loadedBy = "selectChapterForSession") =>
               store.book = call.bookId]_vars

\* C25: once no call of a session is in flight, the code the session shows,
\* when it is the transformation of a chapter, is that of the chapter in
\* session.currentChapter.
C25_NoStaleChapter ==
    store # <<>> =>
        \A i \in 1..Len(store.readingSessions) :
            LET session == store.readingSessions[i]
            IN  ((\A call \in store.calls : call.sessionId # session.id)
                     /\ session.currentCode.kind = "code") =>
                    session.currentCode.chapter = session.currentChapter

\* C28: when a selection ends with the chapter transformed, the session's
\* chapterScrollProgress is the stored fraction as a percentage: round(100 * p)
\* for a stored p, 100 for a chapter stored as complete.
C28_ProgressRoundTrip ==
    [][\A call \in store.calls :
           (/\ call.kind = "select" /\ call.pc = "tick2"
            /\ store' = selectTransformed(store, call)
            /\ call.sessionId \in SessionIds(store)
            /\ StoredProgress(store, call.bookId, call.chapter) > 0) =>
               store'.readingSessions[FindIndex(store, call.sessionId)].chapterScrollProgress
                   = RoundDiv(StoredProgress(store, call.bookId, call.chapter) * 100, 1000)]_vars

\* the session is in the store and shows as loading
SessionLoading(sessionId) ==
    \E i \in 1..Len(store.readingSessions) :
        store.readingSessions[i].id = sessionId /\ store.readingSessions[i].isLoading

\* C29: a session whose isLoading was set by loadSessionBook or
\* selectChapterForSession is no longer loading at some later time, whatever
\* way its calls end, when every await of its calls settles.
C29_LoadingEnds ==
    \A n \in 1..LoadingSessions :
        SessionLoading(SessionName(n)) ~> ~SessionLoading(SessionName(n))

\* both sessions were loading and are not any more: one shows the code of a
\* chapter, the other the line of a load that failed
C29_Witness ==
    /\ store # <<>>
    /\ store.calls = {}
    /\ Len(store.readingSessions) = 2
    /\ ~store.readingSessions[1].isLoading
    /\ ~store.readingSessions[2].isLoading
    /\ store.readingSessions[1].currentCode.kind = "code"
    /\ store.readingSessions[2].currentCode.kind = "failed to load"

RECURSIVE EveryIterationShrinks(_, _)
\* in every iteration of the while loop of breakLines the break point is at
\* least 1 and the remaining text gets shorter
EveryIterationShrinks(remaining, maxLength) ==
    IF Len(remaining) <= maxLength THEN TRUE
    ELSE LET bp   == BreakPoint(remaining, maxLength)
             rest == Trim(SubstringFrom(remaining, bp))
         IN  /\ bp >= 1
             /\ Len(rest) < Len(remaining)
             /\ EveryIterationShrinks(rest, maxLength)

\* the widths the renderers pass: SOFT_LINE_LENGTH - 30 .. SOFT_LINE_LENGTH
RendererWidths == (SOFT_LINE_LENGTH - 30)..SOFT_LINE_LENGTH

\* C30: for a width the renderers pass, every iteration of the loop of
\* breakLines breaks at a point >= 1 and shortens the remaining text, so the
\* loop ends, and every element returned is at most as long as the width.
C30_WrapperTermination ==
    (fnDone /\ fnArg.maxLength \in RendererWidths) =>
        /\ EveryIterationShrinks(fnArg.text, fnArg.maxLength)
        /\ \A i \in 1..Len(fnRes) : Len(fnRes[i]) <= fnArg.maxLength

\* a text wrapped at width 50 in three rounds or more
C30_Witness ==
    /\ fnDone
    /\ fnArg.maxLength \in RendererWidths
    /\ Len(fnRes) >= 3

\* a text broken at the literal source of the sentence-end pattern
C30_SentenceBreakReached ==
    /\ fnDone
    /\ fnArg.maxLength \in RendererWidths
    /\ Len(fnArg.text) > fnArg.maxLength
    /\ 10 * LastIndexOf(Substring(fnArg.text, 0, fnArg.maxLength), SentenceEndSource)
           > 6 * fnArg.maxLength

-----------------------------------------------------------------------------
(* C10 -- Wrapper exactness: joining the elements of wrap(S, W) with single *)
(* spaces gives back S, and an element longer than W is a single word kept  *)
(* whole on its own element.                                                *)
C10_WrapperExactness ==
    fnDone =>
        /\ Join(fnRes, <<" ">>) = fnArg.text
        /\ \A i \in 1..Len(fnRes) :
               Len(fnRes[i]) > fnArg.maxLength => ~Includes(fnRes[i], <<" ">>)

=============================================================================
